---------------------------- MODULE Spec2Model ----------------------------
(***************************************************************************)
(* Model of the Grammo multi-agent pipeline (mariocosenza/lila).           *)
(*                                                                         *)
(* The application graph built by orchestrator.build_app is modelled node  *)
(* by node: one action per graph node, the conditional edge that follows   *)
(* the node being part of the node's action.  A sub-graph used as a node   *)
(* (coder, planner, integrator, validator) reads and writes only the keys  *)
(* of its own state schema (the TypedDict given to its StateGraph); keys   *)
(* that the schema does not declare are absent when the sub-graph reads    *)
(* them (state.get returns its default) and are dropped when it writes     *)
(* them.  The keys of AgentState are kept by the checkpointer from one     *)
(* turn of a session to the next; run_turn overrides only the keys of its  *)
(* state_in.                                                               *)
(*                                                                         *)
(* Texts are abstracted: user messages are tuples of characters, model     *)
(* responses are records of what the code looks at (tool call or not, the  *)
(* shape of the content), and the compiler is a function of the source     *)
(* text it is given.                                                       *)
(***************************************************************************)
EXTENDS Integers, Sequences, FiniteSets, TLC

(***************************************************************************)
(* Bounds of the model.                                                    *)
(***************************************************************************)
\* number of subtasks of the plans the model proposes
PlanLen == 2
\* number of subtasks of a plan that takes the turn beyond the global ceiling
LongPlan == 44
\* the calls of a stage invocation are counted up to this number
CallCap == 12
\* a session is followed for this many turns beyond its first pipeline turn
MaxTurns == 1
\* the chunks of a complete stream of the model
StreamChunks == 2
\* the longest message list a wrapper is called with
MaxMsgs == 2

(***************************************************************************)
(* Program constants.                                                      *)
(***************************************************************************)
TurnMaxIters == 8
TurnMaxGlobalIters == 50
DefaultMaxGlobalIters == 30
DefaultMaxIters == 5
CompileBudget == 3
EvaluatorCompileBudget == 5
IterationCountLimit == 10
ForcedIterationCount == 999

(***************************************************************************)
(* Texts.                                                                  *)
(***************************************************************************)
\* str.lower() on the characters the model uses
Lower(c) ==
    CASE c = "Y" -> "y"
      [] c = "N" -> "n"
      [] c = "T" -> "t"
      [] OTHER -> c

LowerStr(s) == [i \in 1..Len(s) |-> Lower(s[i])]

RECURSIVE LStrip(_)
LStrip(s) == IF s # <<>> /\ Head(s) = " " THEN LStrip(Tail(s)) ELSE s

RECURSIVE RStrip(_)
RStrip(s) ==
    IF s # <<>> /\ s[Len(s)] = " " THEN RStrip(SubSeq(s, 1, Len(s) - 1)) ELSE s

\* str.strip()
Strip(s) == RStrip(LStrip(s))

\* tok in s (Python substring test)
Contains(s, tok) ==
    \E i \in 1..(Len(s) - Len(tok) + 1) : SubSeq(s, i, i + Len(tok) - 1) = tok

explicit_test_keywords ==
    { <<"t","e","s","t">>,
      <<"v","e","r","i","f","i","c","a">>,
      <<"c","h","e","c","k">>,
      <<"d","e","b","u","g">>,
      <<"p","r","o","v","a">>,
      <<"v","a","l","i","d","a","r","e">>,
      <<"c","o","n","t","r","o","l","l","a">>,
      <<"t","e","s","t","a","l","o">> }

user_wants_tests(task) ==
    \E w \in explicit_test_keywords : Contains(LowerStr(task), w)

yes_tokens ==
    { <<"s","i">>, <<"s","ì">>, <<"o","k">>,
      <<"v","a"," ","b","e","n","e">>,
      <<"p","r","o","c","e","d","i">>,
      <<"c","o","n","f","e","r","m","o">>,
      <<"y","e","s">>, <<"y">>, <<"g","o">>, <<"s","u","r","e">> }

no_tokens ==
    { <<"n","o">>, <<"n">>,
      <<"n","o","n"," ","v","a"," ","b","e","n","e">>,
      <<"c","a","m","b","i","a">>,
      <<"m","o","d","i","f","i","c","a">>,
      <<"n","o","p","e">>,
      <<"n","o","t"," ","y","e","t">>,
      <<"w","r","o","n","g">> }

_is_yes(s) ==
    LET t == LowerStr(Strip(s))
    IN  \E tok \in yes_tokens : tok = t \/ Contains(t, tok)

_is_no(s) ==
    LET t == LowerStr(Strip(s))
    IN  \E tok \in no_tokens : tok = t \/ Contains(t, tok)

\* the lines a user types in the model: each one can be a new task or the
\* reply to an approval prompt
UserMsgs ==
    { <<"T","e","s","t"," ">>,
      <<"Y","e","s">>,
      <<" ","n","o">> }

\* the i-th subtask of a plan
Subtask(i) == <<"#", ToString(i)>>

PlanOfLen(n) == [i \in 1..n |-> Subtask(i)]

FINISH == <<"F","I","N","I","S","H">>

(***************************************************************************)
(* Model responses and source texts.                                       *)
(*   A source text is "" (empty), "ok" (a program the compiler accepts)    *)
(*   or "bad" (a text the compiler rejects).  A response content is a      *)
(*   source text, possibly after lines of prose.                           *)
(***************************************************************************)
Sources == {"", "ok", "bad"}

Contents == [prose : BOOLEAN, body : Sources]

NoContent == [prose |-> FALSE, body |-> ""]

\* a response is a tool call (without text) or a text
Responses ==
    [tool : {TRUE}, content : {NoContent}]
        \cup [tool : {FALSE}, content : Contents]

\* drops the leading lines before the first 'func'/'var' line; a text with
\* no such line is returned as it is
_sanitize_grammo_source(c) ==
    IF c.body # "" THEN c.body
    ELSE IF c.prose THEN "bad" ELSE ""

\* the source text held in state, sanitized again (already sanitized)
resanitize(src) == _sanitize_grammo_source([prose |-> FALSE, body |-> src])

\* the compiler: compiled iff the text is a valid program
grammo_compile(src) == src = "ok"

\* the "errors" text of the compiler's result: a rejected program comes with
\* an error text, the empty text is rejected without one
grammo_errors(src) == IF src = "bad" THEN "E" ELSE ""

\* compile_errors after a compile: the error text is appended iff the compile
\* failed and the text is not empty (the list is abstracted by its length)
recorded_errors(n, compiled, errors) ==
    IF (~compiled) /\ errors # "" THEN n + 1 ELSE n

\* after_coder: len(str(code).strip()) > 5, on the abstract source texts
LongEnough(src) == src # ""

\* the validator's report, as its parser sees it: with or without the
\* SUMMARY: and TESTS: lines, and the remaining body
Reports ==
    [labels : {TRUE}, body : {"ok", "bad"}]
        \cup {[labels |-> FALSE, body |-> ""]}

NoReport == [labels |-> FALSE, body |-> ""]

ValidatorResponses ==
    [tool : {TRUE}, content : {NoReport}]
        \cup [tool : {FALSE}, content : Reports]

_parse_validator_output(r) ==
    <<IF r.labels THEN "S" ELSE "", IF r.labels THEN "T" ELSE "", r.body>>

(***************************************************************************)
(* State.                                                                  *)
(***************************************************************************)
VARIABLES
    pc,                 \* the graph node that runs next ("idle": no turn runs)
    stage,              \* the node of the application graph that is running
    user_msg,           \* content of the last HumanMessage sent by the user
    last_msg,           \* kind of messages[-1]
    route, task, original_task, plan, plan_step, awaiting_approval, run_tests,
    code, assembled_code,
    compile_attempts, compile_result, compile_errors,
    test_result,
    validated_code, validation_summary, test_summary,
    iterations, max_iters, global_iterations, max_global_iters,
    iteration_count,
    router_calls,       \* model calls made by the router in the running turn
    llm_calls,          \* model calls made by the running stage invocation
    comp_calls,         \* compiler calls made by the running stage invocation
    finalized,          \* the finalize node ran in the running turn
    exceeded,           \* a reset step found the global ceiling exceeded
    scen,               \* progress of the scenario fail, ..., fail, succeed
    turn_awaiting,      \* awaiting_approval when the running turn started
    trace,              \* the application nodes the running turn has entered
    gen_tasks,          \* the tasks the planner's generator ran in this turn
    turns,              \* turns of the session that ran the whole pipeline
    w_pc,               \* the retry wrapper: position in its retry loop
    w_method,           \* the wrapper method that was called
    w_attempt,          \* the attempt number the retry loop keeps
    w_calls,            \* calls of the wrapped model made by this wrapper call
    w_error,            \* the error the last model call raised
    w_sleeps,           \* the number of sleeps of this wrapper call
    w_sleep,            \* the duration of the last sleep, in tenths of seconds
    w_raised,           \* what the wrapper call raised to its caller
    w_delivered,        \* the chunks the consumer of a stream has received
    w_input,            \* the message list the wrapper was called with
    w_gemma,            \* the wrapped model's name contains "gemma"
    w_passed,           \* the message list the wrapper passes to the model
    t_pc,               \* the tester's graph: the node that runs next
    t_gemma,            \* the tester's model name contains "gemma"
    t_code,             \* TesterState.code
    t_original_code,    \* TesterState.original_code, "" while not set
    t_test_result,      \* TesterState.test_result: "none", "passed", "failed"
    t_test_attempts,    \* TesterState.test_attempts
    t_max_test_attempts,\* TesterState.max_test_attempts, 0 while not set
    t_tool_calls,       \* the tool calls of the last AI message
    t_tool_msg,         \* the result in the last ToolMessage
    t_ids,              \* the ids uuid4 has generated
    t_response,         \* the model's last response
    t_run_code,         \* the code the last test run was called with
    f_pc,               \* the parser of the final report: before or after it ran
    f_text,             \* the lines of the text the parser is given
    f_out,              \* what the parser returned
    b_pc,               \* the step of the followed bridge call ("off": none)
    b_bridge,           \* the sync-over-async helper that is called
    b_loop,             \* an event loop runs in the calling thread
    b_callee,           \* what the coroutine does when it is run
    b_res,              \* the dict res shared with the worker thread
    b_thread,           \* the worker thread: "none", "started", "finished"
    b_ret               \* what the caller has received, <<>> while it waits

routeVars == <<route, task, run_tests>>
planVars == <<original_task, plan, plan_step, awaiting_approval>>
codeVars == <<code, assembled_code>>
compileVars == <<compile_attempts, compile_result, compile_errors>>
reportVars == <<validated_code, validation_summary, test_summary>>
iterVars == <<iterations, max_iters>>
globalVars == <<global_iterations, max_global_iters>>
ghostVars == <<router_calls, llm_calls, comp_calls, exceeded, scen>>
wrapperVars == <<w_pc, w_method, w_attempt, w_calls, w_error, w_sleeps, w_sleep,
                 w_raised, w_delivered, w_input, w_gemma, w_passed>>
\* what only the start of a turn changes, and what no node of the graph changes
testerVars == <<t_pc, t_gemma, t_code, t_original_code, t_test_result,
                t_test_attempts, t_max_test_attempts, t_tool_calls, t_tool_msg,
                t_ids, t_response, t_run_code>>
parserVars == <<f_pc, f_text, f_out>>
bridgeVars == <<b_pc, b_bridge, b_loop, b_callee, b_res, b_thread, b_ret>>
idleVars == <<user_msg, turn_awaiting, turns, wrapperVars, testerVars, parserVars, bridgeVars>>
stageVars == <<stage, trace, gen_tasks>>

vars == <<pc, stageVars, idleVars, last_msg, routeVars, planVars, codeVars,
          compileVars, test_result, reportVars, iterVars, globalVars,
          iteration_count, ghostVars, finalized>>

\* the retry wrapper is not followed in the specifications of the graph
NoError ==
    [cls |-> "none", cause |-> "none", text429 |-> FALSE,
     retry_in |-> <<>>, cause_retry_in |-> <<>>, chunks |-> 0]
WrapperIdle ==
    /\ w_pc = "off"
    /\ w_method = "none"
    /\ w_attempt = 0
    /\ w_calls = 0
    /\ w_error = NoError
    /\ w_sleeps = 0
    /\ w_sleep = 0
    /\ w_raised = "none"
    /\ w_delivered = <<>>
    /\ w_input = <<>>
    /\ w_gemma = FALSE
    /\ w_passed = <<>>

\* a plain text content, and the response before the model has answered
PlainText == [fenced |-> FALSE, parses |-> FALSE, action |-> "none", has_args |-> FALSE]
NoResponse == [content |-> PlainText, native |-> FALSE, code |-> ""]
\* the tester's graph is not followed in the other specifications
TesterIdle ==
    /\ t_pc = "off"
    /\ t_gemma = FALSE
    /\ t_code = ""
    /\ t_original_code = ""
    /\ t_test_result = "none"
    /\ t_test_attempts = 0
    /\ t_max_test_attempts = 0
    /\ t_tool_calls = <<>>
    /\ t_tool_msg = "none"
    /\ t_ids = 0
    /\ t_response = NoResponse
    /\ t_run_code = ""

\* the parser of the final report is not followed in the other specifications
ParserIdle ==
    /\ f_pc = "off"
    /\ f_text = <<>>
    /\ f_out = <<>>

\* the sync-over-async helpers are not followed in the other specifications
BridgeIdle ==
    /\ b_pc = "off"
    /\ b_bridge = ""
    /\ b_loop = FALSE
    /\ b_callee = <<>>
    /\ b_res = <<>>
    /\ b_thread = "none"
    /\ b_ret = <<>>

\* the nodes entered so far, after the edge that leads to node s (or to END)
Entered(tr, s) == IF s = "none" THEN tr ELSE Append(tr, s)

\* a new session: the checkpoint is empty, every key is read with its default
Init ==
    /\ pc = "idle"
    /\ stage = "none"
    /\ user_msg = <<>>
    /\ last_msg = "none"
    /\ route = ""
    /\ task = <<>>
    /\ run_tests = FALSE
    /\ original_task = <<>>
    /\ plan = <<>>
    /\ plan_step = 0
    /\ awaiting_approval = FALSE
    /\ code = ""
    /\ assembled_code = ""
    /\ compile_attempts = 0
    /\ compile_result = "none"
    /\ compile_errors = 0
    /\ test_result = "none"
    /\ validated_code = NoReport
    /\ validation_summary = ""
    /\ test_summary = ""
    /\ iterations = 0
    /\ max_iters = TurnMaxIters
    /\ global_iterations = 0
    /\ max_global_iters = TurnMaxGlobalIters
    /\ iteration_count = 0
    /\ router_calls = 0
    /\ llm_calls = 0
    /\ comp_calls = 0
    /\ finalized = FALSE
    /\ exceeded = FALSE
    /\ scen = -1
    /\ turn_awaiting = FALSE
    /\ trace = <<>>
    /\ gen_tasks = <<>>
    /\ turns = 0
    /\ WrapperIdle
    /\ TesterIdle
    /\ ParserIdle
    /\ BridgeIdle

(***************************************************************************)
(* Bookkeeping of a stage invocation.                                      *)
(***************************************************************************)
\* the compile-attempt budget of a stage
Budget(s) ==
    CASE s = "generator" -> max_iters
      [] s = "evaluator" -> EvaluatorCompileBudget
      [] OTHER -> CompileBudget

\* one more call is counted; the count is followed up to CallCap
counted(n) == IF n < CallCap THEN n + 1 ELSE n

\* a stage invocation begins: its call counters start at 0; the scenario is
\* followed when the invocation starts with fresh counters
EnterStage(fresh) ==
    /\ llm_calls' = 0
    /\ comp_calls' = 0
    /\ scen' = IF fresh THEN 0 ELSE -1

\* the scenario after one more model response r in a stage of budget b
ScenAfter(r, src, b) ==
    IF scen < 0 \/ scen >= b \/ r.tool THEN -1
    ELSE IF scen < b - 1 /\ src = "bad" THEN scen + 1
    ELSE IF scen = b - 1 /\ src = "ok" THEN scen + 1
    ELSE -1

(***************************************************************************)
(* agent_client.run_turn: a turn starts                                    *)
(***************************************************************************)
run_turn_on(Msgs) ==
    /\ pc = "idle"
    /\ \E m \in Msgs :
        \* main: user_in = console.input(...).strip(); an empty line is skipped
        /\ Strip(m) # <<>>
        /\ user_msg' = Strip(m)
    /\ turn_awaiting' = awaiting_approval
    /\ trace' = <<"orchestrator">>
    /\ gen_tasks' = <<>>
    /\ UNCHANGED <<turns, wrapperVars, testerVars, parserVars, bridgeVars>>
    /\ last_msg' = "human"
    /\ iterations' = 0
    /\ max_iters' = TurnMaxIters
    /\ global_iterations' = 0
    /\ max_global_iters' = TurnMaxGlobalIters
    /\ pc' = "orchestrator"
    /\ stage' = "orchestrator"
    /\ finalized' = FALSE
    /\ exceeded' = FALSE
    /\ router_calls' = 0
    /\ EnterStage(FALSE)
    /\ UNCHANGED <<routeVars, planVars, codeVars, compileVars, test_result,
                   reportVars, iteration_count>>

(***************************************************************************)
(* orchestrator.py                                                         *)
(***************************************************************************)
RouteLabels == {"coder", "planner", "other"}

\* what the router's model call yields: a parsed JSON decision, or a text
\* that json.loads rejects
RouterReplies ==
    [parsed : {TRUE}, route : {"coder"}, run_tests : BOOLEAN]
        \cup [parsed : {TRUE}, route : RouteLabels \ {"coder"},
              run_tests : {FALSE}]
        \cup {[parsed |-> FALSE, route |-> "", run_tests |-> FALSE]}

\* the fallback of the except branch: route and flag by message length
\* (the messages of the model are shorter than both thresholds)
fallback_route(t) == IF Len(t) > 300 THEN "planner" ELSE "coder"
fallback_run_tests(t) == Len(t) > 200

final_run_tests(wants, llm_flag) == IF wants THEN TRUE ELSE llm_flag

pick_route(r) == IF r \in {"coder", "planner", "other"} THEN r ELSE "coder"

\* the node the orchestrator's conditional edge leads to
RouterTarget(r) ==
    CASE pick_route(r) = "coder" -> "coder.generate"
      [] pick_route(r) = "planner" -> "planner.entry"
      [] OTHER -> "idle"

router_awaiting(t) ==
    /\ route' = "planner"
    /\ task' = t
    /\ UNCHANGED <<run_tests, last_msg, router_calls>>

router_classify(t, Replies) ==
    \E reply \in Replies :
        LET r == IF reply.parsed THEN reply.route ELSE fallback_route(t)
            f == IF reply.parsed THEN reply.run_tests ELSE fallback_run_tests(t)
        IN  /\ router_calls' = router_calls + 1
            /\ route' = r
            /\ IF r = "other"
               THEN /\ last_msg' = "ai"
                    /\ UNCHANGED <<task, run_tests>>
               ELSE /\ task' = t
                    /\ run_tests' = final_run_tests(user_wants_tests(t), f)
                    /\ UNCHANGED last_msg

router_node_on(Replies) ==
    /\ pc = "orchestrator"
    /\ LET t == Strip(user_msg)
       IN  IF awaiting_approval THEN router_awaiting(t)
           ELSE router_classify(t, Replies)
    /\ pc' = RouterTarget(route')
    /\ stage' = IF RouterTarget(route') = "idle" THEN "none" ELSE pick_route(route')
    /\ trace' = Entered(trace, stage')
    /\ gen_tasks' = gen_tasks
    /\ EnterStage(pick_route(route') = "coder" /\ compile_attempts = 0)
    /\ UNCHANGED <<idleVars, planVars, codeVars, compileVars,
                   test_result, reportVars, iterVars, globalVars,
                   iteration_count, finalized, exceeded>>

(***************************************************************************)
(* coder.py: the coder sub-graph (CoderState: messages, iterations,        *)
(* max_iters, code, compile_attempts, compile_result, compile_errors).     *)
(* It is the node "coder" of the application graph and the sub-graph that  *)
(* the planner's generator_no_stream node invokes.                         *)
(***************************************************************************)
\* a Generate entry that does not count itself
iters_not_counted(iters) == iters

\* iters = int(state.get("iterations", 0)) + 1
iters_after_generate(iters) == iters + 1

\* attempts = int(state.get("compile_attempts", 0)) + 1
attempts_after_compile(attempts) == attempts + 1

coder_route_after_generate(iters, maxi, tool) ==
    IF iters >= maxi THEN "coder.end"
    ELSE IF tool THEN "coder.tools"
    ELSE "coder.compile"

coder_generate_on(Rs) ==
    /\ pc = "coder.generate"
    /\ \E r \in Rs :
        LET src == _sanitize_grammo_source(r.content)
        IN  /\ iterations' = iters_after_generate(iterations)
            /\ max_iters' = max_iters
            /\ code' = src
            /\ last_msg' = IF r.tool THEN "ai_tool" ELSE "ai"
            /\ scen' = ScenAfter(r, src, Budget(stage))
            /\ pc' = coder_route_after_generate(iterations', max_iters', r.tool)
    /\ llm_calls' = counted(llm_calls)
    /\ UNCHANGED <<stageVars, idleVars, routeVars, planVars, assembled_code,
                   compileVars, test_result, reportVars, globalVars,
                   iteration_count, router_calls, comp_calls, exceeded,
                   finalized>>

\* ToolNode(TOOLS): runs the requested tool and appends its ToolMessage
coder_tools ==
    /\ pc = "coder.tools"
    /\ last_msg' = "tool"
    /\ pc' = "coder.generate"
    /\ UNCHANGED <<stageVars, idleVars, routeVars, planVars, codeVars,
                   compileVars, test_result, reportVars, iterVars, globalVars,
                   iteration_count, ghostVars, finalized>>

\* a conditional edge that retries after every failed compile
coder_route_retries_always(compiled, attempts) ==
    IF compiled THEN "coder.end" ELSE "coder.generate"

coder_route_after_compile(compiled, attempts) ==
    IF compiled THEN "coder.end"
    ELSE IF attempts >= CompileBudget THEN "coder.end"
    ELSE "coder.generate"

\* the feedback message is appended iff the compile failed and attempts remain
coder_feedback(compiled, attempts) == (~compiled) /\ attempts < CompileBudget

coder_compile ==
    /\ pc = "coder.compile"
    /\ LET src == resanitize(code)
           compiled == grammo_compile(src)
           errors == grammo_errors(src)
           attempts == attempts_after_compile(compile_attempts)
       IN  /\ compile_errors' = recorded_errors(compile_errors, compiled, errors)
           /\ compile_attempts' = attempts
           /\ compile_result' = IF compiled THEN "ok" ELSE "fail"
           /\ code' = src
           /\ last_msg' = IF coder_feedback(compiled, attempts)
                          THEN "system" ELSE last_msg
           /\ pc' = coder_route_after_compile(compiled, attempts)
    /\ comp_calls' = counted(comp_calls)
    /\ UNCHANGED <<stageVars, idleVars, routeVars, planVars, assembled_code,
                   test_result, reportVars, iterVars, globalVars,
                   iteration_count, router_calls, llm_calls, exceeded, scen,
                   finalized>>

\* an edge that goes to the tester after every coder run
after_coder_always_tests(c, a, rt) == "tester"

\* after_coder: the conditional edge that follows the node "coder"
after_coder(c, a, rt) ==
    LET src == IF c # "" THEN c ELSE a
    IN  IF LongEnough(src) /\ rt THEN "tester" ELSE "validator.generate"

\* the coder sub-graph has ended as the node "coder" of the application graph
coder_return ==
    /\ pc = "coder.end"
    /\ stage = "coder"
    /\ pc' = after_coder(code, assembled_code, run_tests)
    /\ stage' = IF pc' = "tester" THEN "tester" ELSE "validator"
    /\ trace' = Entered(trace, stage')
    /\ gen_tasks' = gen_tasks
    /\ iteration_count' = 0
    /\ EnterStage(compile_attempts = 0)
    /\ UNCHANGED <<idleVars, last_msg, routeVars, planVars, codeVars,
                   compileVars, test_result, reportVars, iterVars, globalVars,
                   router_calls, exceeded, finalized>>

(***************************************************************************)
(* planner.py: the planner sub-graph (AgentState)                          *)
(***************************************************************************)
\* what _parse_plan_json returns for the model's answer: a list of n
\* subtasks, n = 0 when neither parser finds an item
PlanReplies == {0, PlanLen}

game == <<"g","a","m","e">>

\* the safety check of make_plan: an empty or lazy plan is replaced
checked_plan(p, original) ==
    IF p = <<>> \/ (Len(p) = 1 /\ Len(p[1]) * 10 > Len(original) * 8)
    THEN IF Contains(LowerStr(original), game)
         THEN <<original, <<"l","o","g","i","c">>, <<"l","o","o","p">> >>
         ELSE <<original>>
    ELSE p

\* an entry that plans anew whatever the planner is waiting for
entry_route_replans(awaiting) == "planner.make_plan"

entry_route(awaiting) ==
    IF awaiting THEN "planner.handle_approval" ELSE "planner.make_plan"

planner_entry ==
    /\ pc = "planner.entry"
    /\ pc' = entry_route(awaiting_approval)
    /\ UNCHANGED <<stageVars, idleVars, last_msg, routeVars, planVars,
                   codeVars, compileVars, test_result, reportVars, iterVars,
                   globalVars, iteration_count, ghostVars, finalized>>

make_plan_on(Replies) ==
    /\ pc = "planner.make_plan"
    /\ LET original == Strip(task)
       IN  /\ \E n \in Replies :
                plan' = checked_plan(PlanOfLen(n), original)
           /\ original_task' = original
           /\ plan_step' = 0
    /\ llm_calls' = counted(llm_calls)
    /\ pc' = "planner.ask_approval"
    /\ UNCHANGED <<stageVars, idleVars, last_msg, routeVars,
                   awaiting_approval, codeVars, compileVars, test_result,
                   reportVars, iterVars, globalVars, iteration_count,
                   router_calls, comp_calls, exceeded, scen, finalized>>

revise_plan_on(Replies) ==
    /\ pc = "planner.revise_plan"
    /\ LET original == Strip(original_task)
       IN  \E n \in Replies :
                plan' = IF n = 0 THEN <<original>> ELSE PlanOfLen(n)
    /\ plan_step' = 0
    /\ llm_calls' = counted(llm_calls)
    /\ pc' = "planner.ask_approval"
    /\ UNCHANGED <<stageVars, idleVars, last_msg, routeVars, original_task,
                   awaiting_approval, codeVars, compileVars, test_result,
                   reportVars, iterVars, globalVars, iteration_count,
                   router_calls, comp_calls, exceeded, scen, finalized>>

ask_approval ==
    /\ pc = "planner.ask_approval"
    /\ awaiting_approval' = TRUE
    /\ last_msg' = "ai"
    /\ pc' = "planner.end"
    /\ UNCHANGED <<stageVars, idleVars, routeVars, original_task, plan,
                   plan_step, codeVars, compileVars, test_result, reportVars,
                   iterVars, globalVars, iteration_count, ghostVars,
                   finalized>>

\* the flag handle_approval returns for the reply
approval_flag(answer) ==
    IF _is_yes(answer) THEN FALSE
    ELSE IF _is_no(answer) THEN FALSE
    ELSE TRUE

after_handle_route(awaiting, ans) ==
    IF awaiting THEN "planner.end"
    ELSE IF _is_no(ans) THEN "planner.revise_plan"
    ELSE "planner.set_next_subtask"

handle_approval ==
    /\ pc = "planner.handle_approval"
    /\ awaiting_approval' = approval_flag(Strip(task))
    /\ last_msg' = "ai"
    /\ pc' = after_handle_route(awaiting_approval', Strip(task))
    /\ UNCHANGED <<stageVars, idleVars, routeVars, original_task, plan,
                   plan_step, codeVars, compileVars, test_result, reportVars,
                   iterVars, globalVars, iteration_count, ghostVars,
                   finalized>>

\* a selection that takes the first subtask whatever the step is
first_subtask(p, i) == IF p # <<>> THEN p[1] ELSE FINISH

next_subtask(p, i) == IF 0 <= i /\ i < Len(p) THEN p[i + 1] ELSE FINISH

set_next_subtask ==
    /\ pc = "planner.set_next_subtask"
    /\ task' = next_subtask(plan, plan_step)
    /\ pc' = "planner.generator_no_stream"
    /\ UNCHANGED <<stageVars, idleVars, last_msg, route, run_tests, planVars,
                   codeVars, compileVars, test_result, reportVars, iterVars,
                   globalVars, iteration_count, ghostVars, finalized>>

\* generator_no_stream invokes the coder sub-graph on the planner's state
generator_no_stream ==
    /\ pc = "planner.generator_no_stream"
    /\ pc' = "coder.generate"
    /\ EnterStage(compile_attempts = 0 /\ iterations = 0)
    /\ gen_tasks' = Append(gen_tasks, task)
    /\ UNCHANGED <<stage, trace, idleVars, last_msg, routeVars, planVars,
                   codeVars, compileVars, test_result, reportVars, iterVars,
                   globalVars, iteration_count, router_calls, exceeded,
                   finalized>>

\* the coder sub-graph has ended inside generator_no_stream
generator_no_stream_return ==
    /\ pc = "coder.end"
    /\ stage = "planner"
    /\ pc' = "planner.advance"
    /\ UNCHANGED <<stageVars, idleVars, last_msg, routeVars, planVars,
                   codeVars, compileVars, test_result, reportVars, iterVars,
                   globalVars, iteration_count, ghostVars, finalized>>

should_continue(p, i) ==
    IF i < Len(p) THEN "planner.set_next_subtask" ELSE "planner.end"

advance ==
    /\ pc = "planner.advance"
    /\ plan_step' = plan_step + 1
    /\ pc' = should_continue(plan, plan_step')
    /\ UNCHANGED <<stageVars, idleVars, last_msg, routeVars, original_task,
                   plan, awaiting_approval, codeVars, compileVars, test_result,
                   reportVars, iterVars, globalVars, iteration_count,
                   ghostVars, finalized>>

\* an edge that goes on to the integrator whatever the approval flag is
after_planner_goes_on(awaiting) == "integrator.reset"

\* after_planner: the conditional edge that follows the node "planner"
after_planner(awaiting) == IF awaiting THEN "idle" ELSE "integrator.reset"

planner_return ==
    /\ pc = "planner.end"
    /\ pc' = after_planner(awaiting_approval)
    /\ stage' = IF pc' = "idle" THEN "none" ELSE "integrator"
    /\ trace' = Entered(trace, stage')
    /\ gen_tasks' = gen_tasks
    /\ EnterStage(compile_attempts = 0)
    /\ UNCHANGED <<idleVars, last_msg, routeVars, planVars, codeVars,
                   compileVars, test_result, reportVars, iterVars, globalVars,
                   iteration_count, router_calls, exceeded, finalized>>

(***************************************************************************)
(* integrator.py: the integrator sub-graph (IntegratorState: messages,     *)
(* task, plan, workspace, code, assembled_code, iterations, max_iters,     *)
(* compile_attempts, compile_result, compile_errors).  global_iterations   *)
(* and max_global_iters are not keys of IntegratorState: reset_iterations  *)
(* reads their defaults, and its write of global_iterations is dropped.    *)
(***************************************************************************)
\* state.get("global_iterations", 0) in the integrator
integrator_global_iterations == 0
\* state.get("max_global_iters", 30) in the integrator
integrator_max_global_iters == DefaultMaxGlobalIters

\* reset_iterations finds the ceiling exceeded
ceiling_exceeded(global_iters, current_iters, max_global) ==
    global_iters + current_iters > max_global

integrator_reset_iterations ==
    /\ pc = "integrator.reset"
    /\ LET over == ceiling_exceeded(integrator_global_iterations, iterations,
                                    integrator_max_global_iters)
       IN  /\ iterations' = 0
           /\ max_iters' = IF over THEN 0 ELSE max_iters
           /\ exceeded' = (exceeded \/ over)
    /\ pc' = "integrator.generate"
    /\ UNCHANGED <<stageVars, idleVars, last_msg, routeVars, planVars,
                   codeVars, compileVars, test_result, reportVars, globalVars,
                   iteration_count, router_calls, llm_calls, comp_calls, scen,
                   finalized>>

integrator_route_after_generate(iters, maxi, tool) ==
    IF iters >= maxi THEN "integrator.end"
    ELSE IF tool THEN "integrator.tools"
    ELSE "integrator.compile"

integrator_generate_on(Rs) ==
    /\ pc = "integrator.generate"
    /\ \E r \in Rs :
        LET src == _sanitize_grammo_source(r.content)
        IN  /\ iterations' = iters_after_generate(iterations)
            /\ max_iters' = max_iters
            /\ assembled_code' = src
            /\ code' = src
            /\ last_msg' = IF r.tool THEN "ai_tool" ELSE "ai"
            /\ scen' = ScenAfter(r, src, Budget(stage))
            /\ pc' = integrator_route_after_generate(iterations', max_iters',
                                                     r.tool)
    /\ llm_calls' = counted(llm_calls)
    /\ UNCHANGED <<stageVars, idleVars, routeVars, planVars, compileVars,
                   test_result, reportVars, globalVars, iteration_count,
                   router_calls, comp_calls, exceeded, finalized>>

integrator_tools ==
    /\ pc = "integrator.tools"
    /\ last_msg' = "tool"
    /\ pc' = "integrator.generate"
    /\ UNCHANGED <<stageVars, idleVars, routeVars, planVars, codeVars,
                   compileVars, test_result, reportVars, iterVars, globalVars,
                   iteration_count, ghostVars, finalized>>

integrator_route_after_compile(compiled, attempts) ==
    IF compiled \/ attempts >= CompileBudget
    THEN "integrator.end" ELSE "integrator.generate"

integrator_feedback(compiled, attempts) ==
    (~compiled) /\ attempts < CompileBudget

integrator_compile ==
    /\ pc = "integrator.compile"
    /\ LET src == resanitize(IF assembled_code # "" THEN assembled_code
                             ELSE code)
           compiled == grammo_compile(src)
           errors == grammo_errors(src)
           attempts == attempts_after_compile(compile_attempts)
       IN  /\ compile_errors' = recorded_errors(compile_errors, compiled, errors)
           /\ compile_attempts' = attempts
           /\ compile_result' = IF compiled THEN "ok" ELSE "fail"
           /\ last_msg' = IF integrator_feedback(compiled, attempts)
                          THEN "human" ELSE last_msg
           /\ pc' = integrator_route_after_compile(compiled, attempts)
    /\ comp_calls' = counted(comp_calls)
    /\ UNCHANGED <<stageVars, idleVars, routeVars, planVars, codeVars,
                   test_result, reportVars, iterVars, globalVars,
                   iteration_count, router_calls, llm_calls, exceeded, scen,
                   finalized>>

\* the edge integrator -> tester of the application graph
integrator_return ==
    /\ pc = "integrator.end"
    /\ pc' = "tester"
    /\ stage' = "tester"
    /\ trace' = Entered(trace, stage')
    /\ gen_tasks' = gen_tasks
    /\ EnterStage(FALSE)
    /\ UNCHANGED <<idleVars, last_msg, routeVars, planVars, codeVars,
                   compileVars, test_result, reportVars, iterVars, globalVars,
                   iteration_count, router_calls, exceeded, finalized>>

(***************************************************************************)
(* orchestrator.tester_a2a_node: the call of the tester service            *)
(***************************************************************************)
\* what the request to the tester service yields
TesterReplies == {"passed", "error"}

tester_a2a_node_on(Replies) ==
    /\ pc = "tester"
    /\ LET src == IF assembled_code # "" THEN assembled_code ELSE code
       IN  IF src = ""
           THEN test_result' = "none"
           ELSE \E reply \in Replies :
                    test_result' = IF reply = "error" THEN test_result
                                   ELSE reply
    /\ pc' = "validator.generate"
    /\ stage' = "validator"
    /\ trace' = Entered(trace, stage')
    /\ gen_tasks' = gen_tasks
    /\ iteration_count' = 0
    /\ EnterStage(compile_attempts = 0)
    /\ UNCHANGED <<idleVars, last_msg, routeVars, planVars, codeVars,
                   compileVars, reportVars, iterVars, globalVars,
                   router_calls, exceeded, finalized>>

(***************************************************************************)
(* validator.py: the validator sub-graph (ValidatorState).                 *)
(* iteration_count is not a key of AgentState: every invocation of the     *)
(* validator starts without it.                                            *)
(***************************************************************************)
\* a finalize step that has no candidate to fall back on
no_candidate_code(a, c) == ""

_get_candidate_code(a, c) == IF a # "" THEN a ELSE c

validator_route_after_generate(count, tool) ==
    IF count > IterationCountLimit THEN "validator.end"
    ELSE IF tool THEN "validator.tools"
    ELSE "validator.compile"

validator_generate_on(Rs) ==
    /\ pc = "validator.generate"
    /\ \E r \in Rs :
        /\ iteration_count' = iteration_count + 1
        /\ validated_code' = r.content
        /\ last_msg' = IF r.tool THEN "ai_tool" ELSE "ai"
        /\ scen' = ScenAfter(r, _parse_validator_output(r.content)[3],
                             Budget(stage))
        /\ pc' = validator_route_after_generate(iteration_count', r.tool)
    /\ llm_calls' = counted(llm_calls)
    /\ UNCHANGED <<stageVars, idleVars, routeVars, planVars, codeVars,
                   compileVars, test_result, validation_summary, test_summary,
                   iterVars, globalVars, router_calls, comp_calls, exceeded,
                   finalized>>

validator_tools ==
    /\ pc = "validator.tools"
    /\ last_msg' = "tool"
    /\ pc' = "validator.generate"
    /\ UNCHANGED <<stageVars, idleVars, routeVars, planVars, codeVars,
                   compileVars, test_result, reportVars, iterVars, globalVars,
                   iteration_count, ghostVars, finalized>>

validator_route_after_compile(count, compiled, attempts) ==
    IF count > IterationCountLimit THEN "validator.finalize"
    ELSE IF compiled \/ attempts >= CompileBudget THEN "validator.finalize"
    ELSE "validator.generate"

validator_feedback(compiled, attempts) ==
    (~compiled) /\ attempts < CompileBudget

validator_compile ==
    /\ pc = "validator.compile"
    /\ LET code_only == _parse_validator_output(validated_code)[3]
           compiled == grammo_compile(code_only)
           errors == grammo_errors(code_only)
           attempts == attempts_after_compile(compile_attempts)
       IN  /\ compile_errors' = recorded_errors(compile_errors, compiled, errors)
           /\ compile_attempts' = attempts
           /\ compile_result' = IF compiled THEN "ok" ELSE "fail"
           /\ last_msg' = IF validator_feedback(compiled, attempts)
                          THEN "human" ELSE last_msg
           /\ pc' = validator_route_after_compile(iteration_count, compiled,
                                                  attempts)
    /\ comp_calls' = counted(comp_calls)
    /\ UNCHANGED <<stageVars, idleVars, routeVars, planVars, codeVars,
                   test_result, reportVars, iterVars, globalVars,
                   iteration_count, router_calls, llm_calls, exceeded, scen,
                   finalized>>

validator_finalize ==
    /\ pc = "validator.finalize"
    /\ LET parsed == _parse_validator_output(validated_code)
       IN  /\ validation_summary' = parsed[1]
           /\ test_summary' = parsed[2]
           /\ code' = IF parsed[3] # "" THEN parsed[3]
                      ELSE _get_candidate_code(assembled_code, code)
           /\ assembled_code' = IF parsed[3] # "" THEN parsed[3]
                                ELSE assembled_code
    /\ finalized' = TRUE
    /\ pc' = "validator.end"
    /\ UNCHANGED <<stageVars, idleVars, last_msg, routeVars, planVars,
                   compileVars, test_result, validated_code, iterVars,
                   globalVars, iteration_count, ghostVars>>

\* the edge validator -> END of the application graph: the turn is over
validator_return ==
    /\ pc = "validator.end"
    /\ pc' = "END"
    /\ stage' = "none"
    /\ trace' = Entered(trace, stage')
    /\ gen_tasks' = gen_tasks
    /\ iteration_count' = 0
    /\ UNCHANGED <<idleVars, last_msg, routeVars, planVars, codeVars,
                   compileVars, test_result, reportVars, iterVars, globalVars,
                   ghostVars, finalized>>

(***************************************************************************)
(* The application: orchestrator.build_app driven by run_turn.             *)
(* A session is followed through its turns up to the end of the first turn *)
(* that runs the validator (pc = "END").                                   *)
(***************************************************************************)
run_turn == run_turn_on(UserMsgs)
router_node == router_node_on(RouterReplies)
coder_generate == coder_generate_on(Responses)
make_plan == make_plan_on(PlanReplies)
revise_plan == revise_plan_on(PlanReplies)
integrator_generate == integrator_generate_on(Responses)
tester_a2a_node == tester_a2a_node_on(TesterReplies)
validator_generate == validator_generate_on(ValidatorResponses)

TurnStep ==
    \/ router_node
    \/ coder_generate \/ coder_tools \/ coder_compile \/ coder_return
    \/ planner_entry \/ make_plan \/ revise_plan \/ ask_approval
    \/ handle_approval \/ set_next_subtask \/ generator_no_stream
    \/ generator_no_stream_return \/ advance \/ planner_return
    \/ integrator_reset_iterations \/ integrator_generate \/ integrator_tools
    \/ integrator_compile \/ integrator_return
    \/ tester_a2a_node
    \/ validator_generate \/ validator_tools \/ validator_compile
    \/ validator_finalize \/ validator_return

Next == run_turn \/ TurnStep

Spec == Init /\ [][Next]_vars

\* the graph executor runs the next node of a started turn
FairSpec == Spec /\ WF_vars(TurnStep)

TypeOK ==
    /\ compile_result \in {"none", "ok", "fail"}
    /\ code \in Sources /\ assembled_code \in Sources
    /\ iterations \in Nat /\ compile_attempts \in Nat

(***************************************************************************)
(* The application with a long plan: the same graph, driven by a model     *)
(* that answers the router with "planner", proposes LongPlan subtasks and  *)
(* answers a generation request with a tool call or with a valid program.  *)
(* With a plan of this length the integrator's reset always finds its      *)
(* ceiling exceeded, so its tools and compile nodes never run.             *)
(***************************************************************************)
LongMsgs == {<<"Y","e","s">>}
LongRouterReplies == {[parsed |-> TRUE, route |-> "planner", run_tests |-> FALSE]}
LongResponses ==
    {[tool |-> TRUE, content |-> NoContent],
     [tool |-> FALSE, content |-> [prose |-> FALSE, body |-> "ok"]]}
LongReports == {[tool |-> FALSE, content |-> [labels |-> TRUE, body |-> "ok"]]}

NextLong ==
    \/ run_turn_on(LongMsgs)
    \/ router_node_on(LongRouterReplies)
    \/ planner_entry \/ make_plan_on({LongPlan}) \/ ask_approval \/ handle_approval
    \/ set_next_subtask \/ generator_no_stream \/ coder_generate_on(LongResponses)
    \/ coder_tools \/ coder_compile \/ generator_no_stream_return
    \/ advance \/ planner_return
    \/ integrator_reset_iterations \/ integrator_generate_on(LongResponses)
    \/ integrator_return
    \/ tester_a2a_node_on({"passed"})
    \/ validator_generate_on(LongReports) \/ validator_compile \/ validator_finalize
    \/ validator_return

SpecLong == Init /\ [][NextLong]_vars

(***************************************************************************)
(* generator.py: the generator sub-graph (GeneratorState: messages,        *)
(* iterations, max_iters, code, compile_attempts, compile_result,          *)
(* compile_errors), invoked on its own.  build_app does not use it; its    *)
(* input is the state a caller passes in.  global_iterations and           *)
(* max_global_iters are not keys of GeneratorState.                        *)
(***************************************************************************)
\* the values of iterations and max_iters the sub-graph is invoked with
GeneratorEntryIterations == {0, DefaultMaxGlobalIters + 1}
GeneratorEntryMaxIters == {CompileBudget, DefaultMaxIters, TurnMaxIters}

InitGenerator ==
    /\ pc = "generator.reset"
    /\ stage = "generator"
    /\ user_msg = <<>>
    /\ last_msg = "human"
    /\ route = ""
    /\ task = <<>>
    /\ original_task = <<>>
    /\ plan = <<>>
    /\ plan_step = 0
    /\ awaiting_approval = FALSE
    /\ run_tests = FALSE
    /\ code = ""
    /\ assembled_code = ""
    /\ compile_attempts = 0
    /\ compile_result = "none"
    /\ compile_errors = 0
    /\ test_result = "none"
    /\ validated_code = NoReport
    /\ validation_summary = ""
    /\ test_summary = ""
    /\ iterations \in GeneratorEntryIterations
    /\ max_iters \in GeneratorEntryMaxIters
    /\ global_iterations = 0
    /\ max_global_iters = DefaultMaxGlobalIters
    /\ iteration_count = 0
    /\ router_calls = 0
    /\ llm_calls = 0
    /\ comp_calls = 0
    /\ finalized = FALSE
    /\ exceeded = FALSE
    /\ scen = IF iterations = 0 THEN 0 ELSE -1
    /\ turn_awaiting = FALSE
    /\ trace = <<>>
    /\ gen_tasks = <<>>
    /\ turns = 0
    /\ WrapperIdle
    /\ TesterIdle
    /\ ParserIdle
    /\ BridgeIdle

generator_reset_iterations ==
    /\ pc = "generator.reset"
    /\ LET over == ceiling_exceeded(0, iterations, DefaultMaxGlobalIters)
       IN  /\ iterations' = 0
           /\ max_iters' = IF over THEN 0 ELSE max_iters
           /\ exceeded' = (exceeded \/ over)
    /\ pc' = "generator.generate"
    /\ UNCHANGED <<stageVars, idleVars, last_msg, routeVars, planVars,
                   codeVars, compileVars, test_result, reportVars, globalVars,
                   iteration_count, router_calls, llm_calls, comp_calls, scen,
                   finalized>>

generator_route_after_generate(iters, maxi, tool) ==
    IF iters >= maxi THEN "generator.end"
    ELSE IF tool THEN "generator.tools"
    ELSE "generator.compile"

generator_generate ==
    /\ pc = "generator.generate"
    /\ \E r \in Responses :
        LET src == _sanitize_grammo_source(r.content)
        IN  /\ iterations' = iters_after_generate(iterations)
            /\ max_iters' = max_iters
            /\ code' = src
            /\ last_msg' = IF r.tool THEN "ai_tool" ELSE "ai"
            /\ scen' = ScenAfter(r, src, Budget(stage))
            /\ pc' = generator_route_after_generate(iterations', max_iters',
                                                    r.tool)
    /\ llm_calls' = counted(llm_calls)
    /\ UNCHANGED <<stageVars, idleVars, routeVars, planVars, assembled_code,
                   compileVars, test_result, reportVars, globalVars,
                   iteration_count, router_calls, comp_calls, exceeded,
                   finalized>>

generator_tools ==
    /\ pc = "generator.tools"
    /\ last_msg' = "tool"
    /\ pc' = "generator.generate"
    /\ UNCHANGED <<stageVars, idleVars, routeVars, planVars, codeVars,
                   compileVars, test_result, reportVars, iterVars, globalVars,
                   iteration_count, ghostVars, finalized>>

\* max_retries = int(state.get("max_iters", 5))
generator_route_after_compile(compiled, attempts, max_retries) ==
    IF compiled THEN "generator.end"
    ELSE IF attempts >= max_retries THEN "generator.end"
    ELSE "generator.generate"

\* not code or len(code.strip()) < 10
no_code_found(src) == ~LongEnough(src)

generator_compile ==
    /\ pc = "generator.compile"
    /\ LET src == resanitize(code)
           attempts == attempts_after_compile(compile_attempts)
       IN  IF no_code_found(src)
           THEN /\ compile_attempts' = attempts
                /\ compile_result' = "fail"
                /\ compile_errors' = compile_errors + 1
                /\ code' = src
                /\ last_msg' = "human"
                /\ comp_calls' = comp_calls
                /\ pc' = generator_route_after_compile(FALSE, attempts,
                                                       max_iters)
           ELSE LET compiled == grammo_compile(src)
                    errors == grammo_errors(src)
                IN  /\ compile_errors' =
                           recorded_errors(compile_errors, compiled, errors)
                    /\ compile_attempts' = attempts
                    /\ compile_result' = IF compiled THEN "ok" ELSE "fail"
                    /\ code' = src
                    /\ last_msg' = IF (~compiled) /\ attempts < max_iters
                                   THEN "human" ELSE last_msg
                    /\ comp_calls' = counted(comp_calls)
                    /\ pc' = generator_route_after_compile(compiled, attempts,
                                                           max_iters)
    /\ UNCHANGED <<stageVars, idleVars, routeVars, planVars, assembled_code,
                   test_result, reportVars, iterVars, globalVars,
                   iteration_count, router_calls, llm_calls, exceeded, scen,
                   finalized>>

NextGenerator ==
    \/ generator_reset_iterations \/ generator_generate
    \/ generator_tools \/ generator_compile

SpecGenerator == InitGenerator /\ [][NextGenerator]_vars

(***************************************************************************)
(* debugger_evaluator.py: the debugger-evaluator sub-graph                 *)
(* (DebuggerEvaluatorState), invoked on its own.  build_app does not use   *)
(* it; its input is the state a caller passes in.  iteration_count,        *)
(* global_iterations and max_global_iters are keys of its state.           *)
(***************************************************************************)
\* the counters the sub-graph is invoked with
EvaluatorEntryCounts == {0, IterationCountLimit + 1}
EvaluatorEntryGlobals == {0, DefaultMaxGlobalIters}

InitEvaluator ==
    /\ pc = "evaluator.reset"
    /\ stage = "evaluator"
    /\ user_msg = <<>>
    /\ last_msg = "human"
    /\ route = ""
    /\ task = <<>>
    /\ original_task = <<>>
    /\ plan = <<>>
    /\ plan_step = 0
    /\ awaiting_approval = FALSE
    /\ run_tests = FALSE
    /\ code \in {"ok", "bad"}
    /\ assembled_code = ""
    /\ compile_attempts = 0
    /\ compile_result = "none"
    /\ compile_errors = 0
    /\ test_result = "none"
    /\ validated_code = NoReport
    /\ validation_summary = ""
    /\ test_summary = ""
    /\ iterations = 0
    /\ max_iters = TurnMaxIters
    /\ global_iterations \in EvaluatorEntryGlobals
    /\ max_global_iters = DefaultMaxGlobalIters
    /\ iteration_count \in EvaluatorEntryCounts
    /\ router_calls = 0
    /\ llm_calls = 0
    /\ comp_calls = 0
    /\ finalized = FALSE
    /\ exceeded = FALSE
    /\ scen = 0
    /\ turn_awaiting = FALSE
    /\ trace = <<>>
    /\ gen_tasks = <<>>
    /\ turns = 0
    /\ WrapperIdle
    /\ TesterIdle
    /\ ParserIdle
    /\ BridgeIdle

evaluator_reset_iterations ==
    /\ pc = "evaluator.reset"
    /\ LET new_global == global_iterations + iteration_count
           over == ceiling_exceeded(global_iterations, iteration_count,
                                    max_global_iters)
       IN  /\ iteration_count' = IF over THEN ForcedIterationCount ELSE 0
           /\ global_iterations' = new_global
           /\ exceeded' = (exceeded \/ over)
    /\ pc' = "evaluator.generate"
    /\ UNCHANGED <<stageVars, idleVars, last_msg, routeVars, planVars,
                   codeVars, compileVars, test_result, reportVars, iterVars,
                   max_global_iters, router_calls, llm_calls, comp_calls,
                   scen, finalized>>

debugger_evaluator_route_after_generate(count, tool) ==
    IF count > IterationCountLimit THEN "evaluator.end"
    ELSE IF tool THEN "evaluator.tools"
    ELSE "evaluator.compile"

debugger_evaluator_generate ==
    /\ pc = "evaluator.generate"
    /\ \E r \in ValidatorResponses :
        /\ iteration_count' = iteration_count + 1
        /\ validated_code' = r.content
        /\ last_msg' = IF r.tool THEN "ai_tool" ELSE "ai"
        /\ scen' = ScenAfter(r, _parse_validator_output(r.content)[3],
                             Budget(stage))
        /\ pc' = debugger_evaluator_route_after_generate(iteration_count',
                                                         r.tool)
    /\ llm_calls' = counted(llm_calls)
    /\ UNCHANGED <<stageVars, idleVars, routeVars, planVars, codeVars,
                   compileVars, test_result, validation_summary, test_summary,
                   iterVars, globalVars, router_calls, comp_calls, exceeded,
                   finalized>>

evaluator_tools ==
    /\ pc = "evaluator.tools"
    /\ last_msg' = "tool"
    /\ pc' = "evaluator.generate"
    /\ UNCHANGED <<stageVars, idleVars, routeVars, planVars, codeVars,
                   compileVars, test_result, reportVars, iterVars, globalVars,
                   iteration_count, ghostVars, finalized>>

debugger_evaluator_route_after_compile(count, compiled, attempts) ==
    IF count > IterationCountLimit THEN "evaluator.finalize"
    ELSE IF compiled \/ attempts >= EvaluatorCompileBudget
         THEN "evaluator.finalize"
    ELSE "evaluator.generate"

debugger_evaluator_compile ==
    /\ pc = "evaluator.compile"
    /\ LET code_only == _parse_validator_output(validated_code)[3]
           compiled == grammo_compile(code_only)
           errors == grammo_errors(code_only)
           attempts == attempts_after_compile(compile_attempts)
       IN  /\ compile_errors' = recorded_errors(compile_errors, compiled, errors)
           /\ compile_attempts' = attempts
           /\ compile_result' = IF compiled THEN "ok" ELSE "fail"
           /\ last_msg' = IF (~compiled) /\ attempts < EvaluatorCompileBudget
                          THEN "human" ELSE last_msg
           /\ pc' = debugger_evaluator_route_after_compile(iteration_count,
                                                           compiled, attempts)
    /\ comp_calls' = counted(comp_calls)
    /\ UNCHANGED <<stageVars, idleVars, routeVars, planVars, codeVars,
                   test_result, reportVars, iterVars, globalVars,
                   iteration_count, router_calls, llm_calls, exceeded, scen,
                   finalized>>

debugger_evaluator_finalize ==
    /\ pc = "evaluator.finalize"
    /\ LET parsed == _parse_validator_output(validated_code)
       IN  /\ validation_summary' = parsed[1]
           /\ test_summary' = parsed[2]
           /\ code' = IF parsed[3] # "" THEN parsed[3]
                      ELSE _get_candidate_code(assembled_code, code)
           /\ assembled_code' = IF parsed[3] # "" THEN parsed[3]
                                ELSE assembled_code
    /\ finalized' = TRUE
    /\ pc' = "evaluator.end"
    /\ UNCHANGED <<stageVars, idleVars, last_msg, routeVars, planVars,
                   compileVars, test_result, validated_code, iterVars,
                   globalVars, iteration_count, ghostVars>>

NextEvaluator ==
    \/ evaluator_reset_iterations \/ debugger_evaluator_generate
    \/ evaluator_tools \/ debugger_evaluator_compile
    \/ debugger_evaluator_finalize

SpecEvaluator == InitEvaluator /\ [][NextEvaluator]_vars

(***************************************************************************)
(* Properties of a turn of the application.                                *)
(***************************************************************************)
\* C1: every user turn terminates: once a turn has started, the graph
\* router -> {coder | planner -> integrator} -> tester -> validator reaches
\* its end (the turn returns to the prompt, or the validator has run and the
\* graph is at END), whatever the model, the compiler and the tester answer.
C1_TurnTerminates == (pc = "orchestrator") ~> (pc \in {"idle", "END"})

\* a turn has ended in which the coder failed every compile attempt and the
\* validator's model answered every request with a tool call
C1_Witness ==
    /\ pc = "END"
    /\ ~finalized
    /\ compile_result = "fail"
    /\ compile_attempts >= CompileBudget

\* C3: at every point of a turn compile_attempts is at most the attempt
\* budget of the running stage, also when stages follow one another on the
\* shared state.
C3_AttemptsWithinBudget ==
    (stage \in {"coder", "planner", "integrator", "validator", "generator",
                "evaluator"})
        => compile_attempts <= Budget(stage)

\* C9: every turn that runs the evaluation stage ends with finalize
\* executed.
C9_FinalizeAlwaysRuns == (pc = "END") => finalized

\* C10: in a turn that starts with awaiting_approval = true the router makes
\* no model call, selects the planner, sets task to the new user message and
\* leaves plan, plan_step and original_task unchanged, and the planner then
\* enters HandleApproval, never MakePlan.
C10_ApprovalShortCircuit ==
    [][ /\ (pc = "orchestrator" /\ awaiting_approval)
            => /\ router_calls' = router_calls
               /\ router_calls' = 0
               /\ route' = "planner"
               /\ pc' = "planner.entry"
               /\ task' = user_msg
               /\ UNCHANGED <<plan, plan_step, original_task>>
        /\ (pc = "planner.entry" /\ awaiting_approval)
            => pc' = "planner.handle_approval"
        /\ (pc' = "planner.make_plan") => ~awaiting_approval ]_vars

\* the planner has taken up the reply of a turn that started while it was
\* awaiting approval
C10_Witness ==
    /\ pc = "planner.handle_approval"
    /\ awaiting_approval
    /\ route = "planner"
    /\ router_calls = 0
    /\ task = user_msg
    /\ plan # <<>>

(***************************************************************************)
(* Properties of the stage loops and of the iteration ceiling.             *)
(***************************************************************************)
\* the Generate nodes of the generate-validate-repair stages
GenerateNodes == {"coder.generate", "integrator.generate", "generator.generate"}

\* the nodes of those stages that follow the reset node
LoopNodes ==
    {"coder.generate", "coder.tools", "coder.compile", "coder.end",
     "integrator.generate", "integrator.tools", "integrator.compile",
     "integrator.end",
     "generator.generate", "generator.tools", "generator.compile",
     "generator.end"}

\* C2: in every invocation of a generate-validate-repair stage each entry to
\* Generate increases the iteration counter by exactly 1, and the stage
\* makes at most max_iters model calls before it ends.
C2_IterationsBoundCalls ==
    [][ /\ (pc \in GenerateNodes) => iterations' = iterations + 1
        /\ (pc' \in LoopNodes) => llm_calls' <= max_iters' ]_vars

\* C4: a stage with attempt budget B that starts with fresh counters and
\* whose model gives B-1 candidates that fail compilation and then one that
\* compiles ends with compile_result.compiled = true and
\* compile_attempts = B.
StageEnds ==
    {"coder.end", "integrator.end", "validator.end", "generator.end",
     "evaluator.end"}

C4_SucceedsOnLastAttempt ==
    (pc \in StageEnds /\ scen = Budget(stage))
        => (compile_result = "ok" /\ compile_attempts = Budget(stage))

\* C5: within one user turn global_iterations plus the running stage's own
\* iteration counter never exceeds max_global_iters.
C5_GlobalCeiling == global_iterations + iterations <= max_global_iters

\* C6: once the global iteration count has exceeded max_global_iters, every
\* stage entered afterwards in the same turn makes no model call and no
\* compiler call.
C6_NoCallsAfterCeiling == exceeded => (llm_calls = 0 /\ comp_calls = 0)

\* C7: if the global iteration ceiling is reached while the planner's
\* ExecuteLoop still has subtasks left, no generator invocation is made for
\* a remaining subtask.
C7_RemainingSubtasksSkipped ==
    [][ (/\ pc = "planner.generator_no_stream"
         /\ plan_step < Len(plan)
         /\ global_iterations + iterations >= max_global_iters)
            => pc' # "coder.generate" ]_vars

\* C8: when the global iteration ceiling cuts the turn short, the
\* evaluation stage's finalize step still runs.
C8_AbortStillFinalizes == (pc = "evaluator.end" /\ exceeded) => finalized

(***************************************************************************)
(* The approval dialogue: the application graph driven by a model that     *)
(* routes every task to the planner, with the replies a user can type at   *)
(* the approval prompt.                                                    *)
(***************************************************************************)
ApprovalMsgs ==
    { <<"T","e","s","t"," ">>,
      <<"Y","e","s">>,
      <<" ","n","o">>,
      <<"m","a","y","b","e">>,
      <<"o","k"," ","n","o","w">> }

NextApproval ==
    \/ run_turn_on(ApprovalMsgs)
    \/ router_node_on(LongRouterReplies)
    \/ planner_entry \/ make_plan_on({PlanLen}) \/ revise_plan_on({PlanLen})
    \/ ask_approval \/ handle_approval
    \/ set_next_subtask \/ generator_no_stream \/ coder_generate_on(LongResponses)
    \/ coder_tools \/ coder_compile \/ generator_no_stream_return
    \/ advance \/ planner_return
    \/ integrator_reset_iterations \/ integrator_generate_on(LongResponses)
    \/ integrator_tools \/ integrator_compile \/ integrator_return
    \/ tester_a2a_node_on({"passed"})
    \/ validator_generate_on(LongReports) \/ validator_compile
    \/ validator_finalize \/ validator_return

SpecApproval == Init /\ [][NextApproval]_vars

\* the reply is none of the affirmative tokens and none of the negative ones
Unrecognized(ans) ==
    LET t == LowerStr(Strip(ans))
    IN  t \notin yes_tokens /\ t \notin no_tokens

\* C11: while awaiting approval, a reply that is neither one of the
\* affirmative tokens nor one of the negative tokens leaves awaiting_approval
\* true, appends the clarification message, leaves plan and plan_step
\* unchanged and ends the planner without a generator run or a revision.
C11_UnrecognizedReplySuspends ==
    [][ (pc = "planner.handle_approval" /\ Unrecognized(task))
            => /\ awaiting_approval'
               /\ last_msg' = "ai"
               /\ UNCHANGED <<plan, plan_step>>
               /\ pc' = "planner.end" ]_vars

\* the running turn has entered the application node s
InTrace(s) == \E i \in 1..Len(trace) : trace[i] = s

\* C12: no plan subtask is executed before approval: the generator is
\* invoked inside the planner, and the integrator after it, only in a turn
\* that began with awaiting_approval = true and whose reply was classified
\* affirmative; a turn that runs MakePlan or RevisePlan goes on to
\* AskApproval and ends suspended with awaiting_approval = true, without any
\* generator, integrator, tester or validator invocation.
C12_NoSubtaskBeforeApproval ==
    [][ /\ (gen_tasks' # <<>> \/ InTrace("integrator")')
            => (turn_awaiting' /\ _is_yes(user_msg'))
        /\ (pc \in {"planner.make_plan", "planner.revise_plan"})
            => pc' = "planner.ask_approval"
        /\ (pc = "planner.ask_approval")
            => (awaiting_approval' /\ pc' = "planner.end")
        /\ (pc = "planner.end" /\ awaiting_approval)
            => (pc' = "idle" /\ awaiting_approval' /\ trace' = trace)
        /\ (pc' \in {"planner.make_plan", "planner.revise_plan",
                     "planner.ask_approval"}
            \/ (pc' = "idle" /\ InTrace("planner")'))
            => /\ gen_tasks' = <<>>
               /\ ~InTrace("integrator")' /\ ~InTrace("tester")'
               /\ ~InTrace("validator")' /\ ~InTrace("coder")' ]_vars

\* an approved plan has been executed and the integrator is entered
C12_Witness ==
    /\ pc = "integrator.reset"
    /\ turn_awaiting /\ _is_yes(user_msg)
    /\ gen_tasks # <<>>
    /\ InTrace("integrator")

\* how many times the running turn has entered the application node s
TimesEntered(s) == Cardinality({i \in 1..Len(trace) : trace[i] = s})

\* C13: after an affirmative reply (the branch after HandleApproval goes to
\* the ExecuteLoop) the generator is invoked exactly len(plan) times, the
\* i-th invocation with task = plan[i] in plan order, plan_step goes from 0
\* to len(plan) in steps of 1, and the integrator is then entered exactly
\* once.
C13_ExecuteLoopFollowsPlan ==
    [][ /\ (pc = "planner.handle_approval"
            /\ pc' = "planner.set_next_subtask")
            => (plan_step = 0 /\ gen_tasks = <<>>)
        /\ (pc = "planner.generator_no_stream")
            => /\ plan_step < Len(plan)
               /\ task = plan[plan_step + 1]
               /\ gen_tasks' = SubSeq(plan, 1, plan_step + 1)
        /\ (pc = "planner.advance")
            => /\ plan_step' = plan_step + 1
               /\ plan' = plan
               /\ (pc' = "planner.end") <=> (plan_step' = Len(plan))
        /\ (pc = "planner.end" /\ ~awaiting_approval)
            => pc' = "integrator.reset"
        /\ (pc' = "integrator.reset")
            => /\ pc = "planner.end"
               /\ gen_tasks' = plan'
               /\ plan_step' = Len(plan')
        /\ TimesEntered("integrator")' <= 1 ]_vars

\* the ExecuteLoop has run the whole of a plan of several subtasks and the
\* integrator is entered
C13_Witness ==
    /\ pc = "integrator.reset"
    /\ Len(plan) > 1
    /\ gen_tasks = plan
    /\ plan_step = Len(plan)
    /\ TimesEntered("integrator") = 1

\* the first Generate of a stage invocation is about to run
AtStageEntry ==
    /\ pc \in {"coder.generate", "integrator.generate", "validator.generate"}
    /\ llm_calls = 0
    /\ comp_calls = 0

\* C14: at entry to every invocation of a generate-validate-repair stage,
\* including each subtask's generator run and the validator that follows the
\* coder, the stage's iteration counter and compile_attempts count from 0.
C14_FreshCountersAtEntry ==
    AtStageEntry
        => /\ compile_attempts = 0
           /\ (IF pc = "validator.generate" THEN iteration_count
               ELSE iterations) = 0

(***************************************************************************)
(* A session of several turns: after a turn that ran the whole pipeline    *)
(* the client prints the answer and prompts again; the checkpointer keeps  *)
(* the state of the thread.  The model answers the router with "coder" or  *)
(* "planner", proposes a plan of one subtask and answers a generation      *)
(* request with a tool call or with a valid program.                       *)
(***************************************************************************)
SessionMsgs == { <<"T","e","s","t"," ">>, <<"Y","e","s">> }
SessionRouterReplies ==
    {[parsed |-> TRUE, route |-> "coder", run_tests |-> FALSE],
     [parsed |-> TRUE, route |-> "planner", run_tests |-> FALSE]}

\* main: run_turn has returned, the answer is printed and the loop prompts
\* for the next line
main_loop ==
    /\ pc = "END"
    /\ turns < MaxTurns
    /\ turns' = turns + 1
    /\ pc' = "idle"
    /\ UNCHANGED <<stageVars, user_msg, turn_awaiting, wrapperVars, testerVars,
                   parserVars, bridgeVars,
                   last_msg,
                   routeVars, planVars, codeVars, compileVars, test_result,
                   reportVars, iterVars, globalVars, iteration_count,
                   ghostVars, finalized>>

NextSession ==
    \/ run_turn_on(SessionMsgs) \/ main_loop
    \/ router_node_on(SessionRouterReplies)
    \/ coder_return
    \/ planner_entry \/ make_plan_on({0}) \/ ask_approval \/ handle_approval
    \/ set_next_subtask \/ generator_no_stream \/ coder_generate_on(LongResponses)
    \/ coder_tools \/ coder_compile \/ generator_no_stream_return
    \/ advance \/ planner_return
    \/ integrator_reset_iterations \/ integrator_generate_on(LongResponses)
    \/ integrator_tools \/ integrator_compile \/ integrator_return
    \/ tester_a2a_node_on({"passed"})
    \/ validator_generate_on(LongReports) \/ validator_compile
    \/ validator_finalize \/ validator_return

SpecSession == Init /\ [][NextSession]_vars

\* C15: when a new top-level task begins in an existing session (a turn
\* that is not an approval reply), code, assembled_code, plan, plan_step,
\* compile_attempts, compile_result, compile_errors and test_result have
\* their initial values before the first stage runs.
C15_NewTaskStartsClean ==
    (pc = "orchestrator" /\ ~awaiting_approval)
        => /\ code = "" /\ assembled_code = ""
           /\ plan = <<>> /\ plan_step = 0
           /\ compile_attempts = 0 /\ compile_result = "none"
           /\ compile_errors = 0
           /\ test_result = "none"

\* the orders in which the stages of a turn run
StageOrders ==
    { <<"orchestrator">>,
      <<"orchestrator", "coder", "validator">>,
      <<"orchestrator", "coder", "tester", "validator">>,
      <<"orchestrator", "planner">>,
      <<"orchestrator", "planner", "integrator", "tester", "validator">> }

IsPrefix(a, b) == Len(a) <= Len(b) /\ SubSeq(b, 1, Len(a)) = a

\* the state holds an artifact: after_coder reads code, or assembled_code
\* when code is empty
ArtifactProduced == LongEnough(IF code # "" THEN code ELSE assembled_code)

C17_KeywordsDecideRunTests ==
    [][ (pc = "orchestrator" /\ ~awaiting_approval /\ route' \in {"coder", "planner"})
            => run_tests' = user_wants_tests(task') ]_vars

(***************************************************************************)
(* The retry wrapper of the chat model (_GeminiSafeWrapper).  One wrapper  *)
(* call is followed: its method, every call of the wrapped model, every    *)
(* sleep and what it raises.  Durations are in tenths of a second; the     *)
(* delay texts of the model have at most one decimal.                      *)
(***************************************************************************)
appVars == <<pc, stageVars, user_msg, turn_awaiting, turns, last_msg, routeVars,
             planVars, codeVars, compileVars, test_result, reportVars, iterVars,
             globalVars, iteration_count, ghostVars, finalized>>

\* stop_after_attempt(12) of the decorator, max_attempts of stream and astream
MaxAttempts == 12
StreamMaxAttempts == 12
AStreamMaxAttempts == 12
\* wait_exponential(multiplier=2, min=2, max=60), in seconds
WaitMultiplier == 2
WaitMin == 2
WaitMax == 60
\* the buffer added to a delay the server suggested, in seconds
DelayBuffer == 1
\* _extract_retry_delay found no delay (None)
NoDelay == -1

Tenths(seconds) == seconds * 10
Min(a, b) == IF a < b THEN a ELSE b
Max(a, b) == IF a > b THEN a ELSE b

\* the errors a call of the wrapped model raises: the class, the class of
\* __cause__, whether str(e) holds "RESOURCE_EXHAUSTED" or "429", and the text
\* between "Please retry in " and "s" in str(e) and in str(e.__cause__)
\* (empty when the phrase is absent), and the chunks a stream of the model
\* has yielded before it raises
ModelErrors ==
    { [cls |-> "ResourceExhausted", cause |-> "none", text429 |-> TRUE,
       retry_in |-> <<"5", ".", "2">>, cause_retry_in |-> <<>>, chunks |-> 0],
      [cls |-> "ResourceExhausted", cause |-> "none", text429 |-> TRUE,
       retry_in |-> <<"0">>, cause_retry_in |-> <<>>, chunks |-> 0],
      [cls |-> "ResourceExhausted", cause |-> "none", text429 |-> TRUE,
       retry_in |-> <<>>, cause_retry_in |-> <<>>, chunks |-> 0],
      [cls |-> "ResourceExhausted", cause |-> "none", text429 |-> TRUE,
       retry_in |-> <<".", ".">>, cause_retry_in |-> <<>>, chunks |-> 0],
      [cls |-> "ChatGoogleGenerativeAIError", cause |-> "ResourceExhausted",
       text429 |-> FALSE, retry_in |-> <<>>, cause_retry_in |-> <<"7">>, chunks |-> 0],
      [cls |-> "RuntimeError", cause |-> "none", text429 |-> TRUE,
       retry_in |-> <<>>, cause_retry_in |-> <<>>, chunks |-> 1],
      [cls |-> "ValueError", cause |-> "none", text429 |-> FALSE,
       retry_in |-> <<>>, cause_retry_in |-> <<>>, chunks |-> 0] }

\* what a call of the wrapped model does: it returns, or raises an error
ModelOutcomes == {NoError} \cup ModelErrors

_is_retryable_error(e) ==
    \/ e.cls = "ResourceExhausted"
    \/ e.cause = "ResourceExhausted"
    \/ e.text429

DigitValue(c) ==
    CASE c = "0" -> 0 [] c = "1" -> 1 [] c = "2" -> 2 [] c = "3" -> 3
      [] c = "4" -> 4 [] c = "5" -> 5 [] c = "6" -> 6 [] c = "7" -> 7
      [] c = "8" -> 8 [] c = "9" -> 9

RECURSIVE IntegerValue(_)
IntegerValue(txt) ==
    IF txt = <<>> THEN 0
    ELSE 10 * IntegerValue(SubSeq(txt, 1, Len(txt) - 1)) + DigitValue(txt[Len(txt)])

\* float(text) of a text of digits and dots, in tenths; NoDelay on ValueError
float(txt) ==
    LET dots == {i \in 1..Len(txt) : txt[i] = "."}
    IN  IF Cardinality(dots) > 1 \/ Len(txt) = Cardinality(dots) THEN NoDelay
        ELSE IF dots = {} THEN 10 * IntegerValue(txt)
        ELSE LET d == CHOOSE i \in dots : TRUE
                 whole == SubSeq(txt, 1, d - 1)
                 frac == SubSeq(txt, d + 1, Len(txt))
             IN  10 * IntegerValue(whole)
                    + (IF frac = <<>> THEN 0 ELSE DigitValue(frac[1]))

\* the first text that matches the pattern and parses, the wrapper's message
\* before the cause's
_extract_retry_delay(e) ==
    IF e.retry_in # <<>> /\ float(e.retry_in) # NoDelay THEN float(e.retry_in)
    ELSE IF e.cause # "none" /\ e.cause_retry_in # <<>>
            /\ float(e.cause_retry_in) # NoDelay
         THEN float(e.cause_retry_in)
    ELSE NoDelay

\* tenacity's wait_exponential for an attempt number
wait_exponential(attempt_number) ==
    Tenths(Max(Max(0, WaitMin),
               Min(WaitMultiplier * 2 ^ (attempt_number - 1), WaitMax)))

\* wait_dynamic_gemini.__call__
wait_dynamic_gemini(e, attempt_number) ==
    LET extracted_delay == _extract_retry_delay(e)
    IN  IF extracted_delay # NoDelay
        THEN extracted_delay + Tenths(DelayBuffer)
        ELSE wait_exponential(attempt_number)

\* _get_retry_sleep_time: "if delay" is false for None and for 0.0;
\* _stream_attempt is never set, getattr gives 1
_get_retry_sleep_time(e) ==
    LET delay == _extract_retry_delay(e)
    IN  IF delay # NoDelay /\ delay # 0
        THEN delay + Tenths(DelayBuffer)
        ELSE Tenths(Min(WaitMax, WaitMultiplier * 2 ^ (1 - 1)))

\* a retry loop that gives up at the first error
stop_at_once(attempt_number) == TRUE

\* stop_after_attempt(12)
stop_after_attempt(attempt_number) == attempt_number >= MaxAttempts

WrapperMethods == {"invoke", "stream", "astream"}

\* the first n chunks of the model's stream; a stream that completes yields
\* StreamChunks chunks
Chunks(n) == [i \in 1..n |-> i]

InitWrapper ==
    /\ pc = "idle"
    /\ stage = "none"
    /\ user_msg = <<>>
    /\ last_msg = "none"
    /\ route = ""
    /\ task = <<>>
    /\ run_tests = FALSE
    /\ original_task = <<>>
    /\ plan = <<>>
    /\ plan_step = 0
    /\ awaiting_approval = FALSE
    /\ code = ""
    /\ assembled_code = ""
    /\ compile_attempts = 0
    /\ compile_result = "none"
    /\ compile_errors = 0
    /\ test_result = "none"
    /\ validated_code = NoReport
    /\ validation_summary = ""
    /\ test_summary = ""
    /\ iterations = 0
    /\ max_iters = TurnMaxIters
    /\ global_iterations = 0
    /\ max_global_iters = TurnMaxGlobalIters
    /\ iteration_count = 0
    /\ router_calls = 0
    /\ llm_calls = 0
    /\ comp_calls = 0
    /\ finalized = FALSE
    /\ exceeded = FALSE
    /\ scen = -1
    /\ turn_awaiting = FALSE
    /\ trace = <<>>
    /\ gen_tasks = <<>>
    /\ turns = 0
    /\ w_pc = "call"
    /\ w_method \in WrapperMethods
    /\ w_attempt = IF w_method = "invoke" THEN 1 ELSE 0
    /\ w_calls = 0
    /\ w_error = NoError
    /\ w_sleeps = 0
    /\ w_sleep = 0
    /\ w_raised = "none"
    /\ w_delivered = <<>>
    /\ w_input = <<>>
    /\ w_gemma = FALSE
    /\ w_passed = <<>>
    /\ TesterIdle
    /\ ParserIdle
    /\ BridgeIdle

\* the wrapper call returns what the model returned
wrapper_returns ==
    /\ w_pc' = "returned"
    /\ UNCHANGED <<w_attempt, w_error, w_sleeps, w_sleep, w_raised>>

\* the wrapper call raises
wrapper_raises(e, what) ==
    /\ w_pc' = "raised"
    /\ w_error' = e
    /\ w_raised' = what
    /\ UNCHANGED <<w_attempt, w_sleeps, w_sleep>>

\* the wrapper sleeps and goes round its loop again
wrapper_sleeps(e, duration, next_attempt) ==
    /\ w_pc' = "call"
    /\ w_error' = e
    /\ w_sleep' = duration
    /\ w_sleeps' = w_sleeps + 1
    /\ w_attempt' = next_attempt
    /\ UNCHANGED w_raised

\* invoke: one attempt of _execute_with_retry under the @retry decorator.
\* The decorator has no reraise=True: when it stops it raises RetryError.
_execute_with_retry ==
    /\ w_pc = "call"
    /\ w_method = "invoke"
    /\ w_calls' = w_calls + 1
    /\ \E out \in ModelOutcomes :
        IF out = NoError THEN wrapper_returns
        ELSE IF ~_is_retryable_error(out) THEN wrapper_raises(out, "original")
        ELSE IF stop_after_attempt(w_attempt) THEN wrapper_raises(out, "RetryError")
        ELSE wrapper_sleeps(out, wait_dynamic_gemini(out, w_attempt), w_attempt + 1)
    /\ UNCHANGED <<appVars, testerVars, parserVars, bridgeVars, w_method, w_delivered, w_input, w_gemma, w_passed>>

\* stream: one round of its while loop
stream ==
    /\ w_pc = "call"
    /\ w_method = "stream"
    /\ w_calls' = w_calls + 1
    /\ \E out \in ModelOutcomes :
        /\ w_delivered' = w_delivered
                \o Chunks(IF out = NoError THEN StreamChunks ELSE out.chunks)
        /\ IF out = NoError THEN wrapper_returns
           ELSE IF _is_retryable_error(out)
           THEN LET attempt == w_attempt + 1
                IN  IF attempt >= StreamMaxAttempts
                    THEN wrapper_raises(out, "original")
                    ELSE wrapper_sleeps(out, _get_retry_sleep_time(out), attempt)
           ELSE wrapper_raises(out, "original")
    /\ UNCHANGED <<appVars, testerVars, parserVars, bridgeVars, w_method, w_input, w_gemma, w_passed>>

\* astream: one round of its while loop
astream ==
    /\ w_pc = "call"
    /\ w_method = "astream"
    /\ w_calls' = w_calls + 1
    /\ \E out \in ModelOutcomes :
        /\ w_delivered' = w_delivered
                \o Chunks(IF out = NoError THEN StreamChunks ELSE out.chunks)
        /\ IF out = NoError THEN wrapper_returns
           ELSE IF _is_retryable_error(out)
           THEN LET attempt == w_attempt + 1
                IN  IF attempt >= AStreamMaxAttempts
                    THEN wrapper_raises(out, "original")
                    ELSE wrapper_sleeps(out, _get_retry_sleep_time(out), attempt)
           ELSE wrapper_raises(out, "original")
    /\ UNCHANGED <<appVars, testerVars, parserVars, bridgeVars, w_method, w_input, w_gemma, w_passed>>

NextWrapper ==
    \/ _execute_with_retry
    \/ stream
    \/ astream

SpecWrapper == InitWrapper /\ [][NextWrapper]_vars

\* C18: a non-retryable error is raised by the attempt that met it, without
\* a sleep and without a further call of the model; a retryable error is
\* raised to the caller only when no attempt remains.
C18_OnlyRetryableRetried ==
    [][ /\ (w_pc = "call" /\ w_pc' # "returned" /\ w_error'.cls = "ValueError")
            => /\ w_pc' = "raised"
               /\ w_raised' = "original"
               /\ w_calls' = w_calls + 1
               /\ (w_sleeps = 0 => w_calls' = 1)
               /\ w_sleeps' = w_sleeps
        /\ (w_pc' = "raised" /\ w_error'.cls # "ValueError")
            => w_calls' = MaxAttempts
        /\ (w_pc = "raised") => UNCHANGED wrapperVars ]_vars

\* a non-retryable error met by the first call is raised at once
C18_Witness ==
    /\ w_pc = "raised"
    /\ w_error.cls = "ValueError"
    /\ w_calls = 1
    /\ w_sleeps = 0
    /\ w_raised = "original"

\* C19: when every call of the model raises a retryable error, the wrapper
\* calls the model exactly 12 times and then raises the error the model call
\* raised, in invoke and in stream alike.
C19_TwelveCallsThenOriginal ==
    (w_pc = "raised" /\ _is_retryable_error(w_error))
        => (w_calls = 12 /\ w_raised = "original")

\* C20: when the error carries a delay d that parses, the wait is d + 1
\* seconds, in invoke and in the streaming methods alike.
C20_SuggestedDelayPlusOne ==
    [][ (w_pc = "call" /\ w_pc' = "call" /\ _extract_retry_delay(w_error') # NoDelay)
            => w_sleep' = _extract_retry_delay(w_error') + Tenths(1) ]_vars

\* the backoff of the n-th retry: 2 s doubled with each attempt, at most 60 s
Backoff(n) == Tenths(Max(2, Min(2 * 2 ^ (n - 1), 60)))

\* C21: when the error carries no server delay, the wait before the n-th
\* retry is the exponential backoff (2 s, doubling, at most 60 s), in invoke
\* and in the streaming methods alike.
C21_ExponentialBackoff ==
    [][ (w_pc = "call" /\ w_pc' = "call" /\ _extract_retry_delay(w_error') = NoDelay)
            => w_sleep' = Backoff(w_sleeps') ]_vars

\* C22: the consumer of stream() or astream() ends up with exactly the
\* chunks of the attempt that completed; the chunks of a failed attempt are
\* not delivered in addition.
C22_FailedChunksDiscarded ==
    (w_pc = "returned" /\ w_method \in {"stream", "astream"})
        => w_delivered = Chunks(StreamChunks)

(***************************************************************************)
(* _sanitize_messages of the two wrappers (multi_agent.py and tester.py):  *)
(* what the wrapper passes to the model for the list it was called with.   *)
(***************************************************************************)
\* messages: the role and the content (empty, blank, or text)
Messages == [role : {"system", "human", "ai"}, content : {<<>>, <<" ">>, <<"x">>}]
MessageLists == UNION {[1..n -> Messages] : n \in 0..MaxMsgs}

\* os.getenv("GEMINI_FALLBACK_PROMPT", "Continue.")
fallback == <<"Continue.">>

HumanMessage(c) == [role |-> "human", content |-> c]

\* content.strip() is not empty
has_content(m) == Strip(m.content) # <<>>

\* "\n\n".join(contents)
RECURSIVE join(_)
join(contents) ==
    IF contents = <<>> THEN <<>>
    ELSE IF Len(contents) = 1 THEN contents[1]
    ELSE contents[1] \o <<"\n\n">> \o join(Tail(contents))

is_system(m) == m.role = "system"
is_chat(m) == m.role # "system"

_merge_system_for_gemma(valid_msgs) ==
    LET system_msgs == SelectSeq(valid_msgs, is_system)
        system_content == [i \in 1..Len(system_msgs) |-> system_msgs[i].content]
        chat_msgs == SelectSeq(valid_msgs, is_chat)
        merged_system_text == join(system_content)
    IN  IF system_content = <<>> THEN valid_msgs
        ELSE IF chat_msgs # <<>> /\ chat_msgs[1].role = "human"
        THEN <<HumanMessage(<<"Instructions:\n">> \o merged_system_text
                            \o <<"\n\nQuery:\n">> \o chat_msgs[1].content)>>
                \o Tail(chat_msgs)
        ELSE <<HumanMessage(merged_system_text)>> \o chat_msgs

\* _GeminiSafeWrapper._sanitize_messages of multi_agent.py
_sanitize_messages(inp, gemma) ==
    LET filtered == SelectSeq(inp, has_content)
        valid_msgs == IF gemma THEN _merge_system_for_gemma(filtered) ELSE filtered
    IN  IF valid_msgs = <<>> THEN <<HumanMessage(fallback)>>
        ELSE IF \A i \in 1..Len(valid_msgs) : is_system(valid_msgs[i])
        THEN Append(valid_msgs, HumanMessage(fallback))
        ELSE valid_msgs

\* _GeminiSafeWrapper._sanitize_messages of tester.py
tester_sanitize_messages(inp, gemma) ==
    LET valid_msgs == SelectSeq(inp, has_content)
    IN  IF ~gemma THEN valid_msgs ELSE _merge_system_for_gemma(valid_msgs)

InitSanitize ==
    /\ pc = "idle"
    /\ stage = "none"
    /\ user_msg = <<>>
    /\ last_msg = "none"
    /\ route = ""
    /\ task = <<>>
    /\ run_tests = FALSE
    /\ original_task = <<>>
    /\ plan = <<>>
    /\ plan_step = 0
    /\ awaiting_approval = FALSE
    /\ code = ""
    /\ assembled_code = ""
    /\ compile_attempts = 0
    /\ compile_result = "none"
    /\ compile_errors = 0
    /\ test_result = "none"
    /\ validated_code = NoReport
    /\ validation_summary = ""
    /\ test_summary = ""
    /\ iterations = 0
    /\ max_iters = TurnMaxIters
    /\ global_iterations = 0
    /\ max_global_iters = TurnMaxGlobalIters
    /\ iteration_count = 0
    /\ router_calls = 0
    /\ llm_calls = 0
    /\ comp_calls = 0
    /\ finalized = FALSE
    /\ exceeded = FALSE
    /\ scen = -1
    /\ turn_awaiting = FALSE
    /\ trace = <<>>
    /\ gen_tasks = <<>>
    /\ turns = 0
    /\ w_pc = "sanitize"
    /\ w_method \in {"invoke", "tester.invoke"}
    /\ w_attempt = 0
    /\ w_calls = 0
    /\ w_error = NoError
    /\ w_sleeps = 0
    /\ w_sleep = 0
    /\ w_raised = "none"
    /\ w_delivered = <<>>
    /\ w_input \in MessageLists
    /\ w_gemma \in BOOLEAN
    /\ w_passed = <<>>
    /\ TesterIdle
    /\ ParserIdle
    /\ BridgeIdle

\* invoke of multi_agent.py hands the sanitized list to the model
invoke ==
    /\ w_pc = "sanitize"
    /\ w_method = "invoke"
    /\ w_passed' = _sanitize_messages(w_input, w_gemma)
    /\ w_pc' = "call"
    /\ UNCHANGED <<appVars, testerVars, parserVars, bridgeVars, w_method, w_attempt, w_calls, w_error, w_sleeps,
                   w_sleep, w_raised, w_delivered, w_input, w_gemma>>

\* invoke of tester.py hands the sanitized list to the model
tester_invoke ==
    /\ w_pc = "sanitize"
    /\ w_method = "tester.invoke"
    /\ w_passed' = tester_sanitize_messages(w_input, w_gemma)
    /\ w_pc' = "call"
    /\ UNCHANGED <<appVars, testerVars, parserVars, bridgeVars, w_method, w_attempt, w_calls, w_error, w_sleeps,
                   w_sleep, w_raised, w_delivered, w_input, w_gemma>>

NextSanitize == invoke \/ tester_invoke

SpecSanitize == InitSanitize /\ [][NextSanitize]_vars

\* C23: for every input list, the list passed to the model holds at least one
\* message with content that is not a system message, and holds no message
\* with empty content.
C23_NeverEmptyPayload ==
    (w_pc = "call" /\ w_method \in {"invoke", "tester.invoke"} /\ w_calls = 0
     /\ w_attempt = 0)
        => /\ \E i \in 1..Len(w_passed) :
                w_passed[i].role # "system" /\ has_content(w_passed[i])
           /\ \A i \in 1..Len(w_passed) : has_content(w_passed[i])

(***************************************************************************)
(* The tester's own graph (tester.py, build_tester_graph): init, generate, *)
(* tools, collect.  tester_server.py invokes it with a message and the     *)
(* code the orchestrator sent, which tester_a2a_node has stripped.         *)
(***************************************************************************)
\* the state of the application before its first turn
AppIdle ==
    /\ pc = "idle"
    /\ stage = "none"
    /\ user_msg = <<>>
    /\ last_msg = "none"
    /\ route = ""
    /\ task = <<>>
    /\ run_tests = FALSE
    /\ original_task = <<>>
    /\ plan = <<>>
    /\ plan_step = 0
    /\ awaiting_approval = FALSE
    /\ code = ""
    /\ assembled_code = ""
    /\ compile_attempts = 0
    /\ compile_result = "none"
    /\ compile_errors = 0
    /\ test_result = "none"
    /\ validated_code = NoReport
    /\ validation_summary = ""
    /\ test_summary = ""
    /\ iterations = 0
    /\ max_iters = TurnMaxIters
    /\ global_iterations = 0
    /\ max_global_iters = TurnMaxGlobalIters
    /\ iteration_count = 0
    /\ router_calls = 0
    /\ llm_calls = 0
    /\ comp_calls = 0
    /\ finalized = FALSE
    /\ exceeded = FALSE
    /\ scen = -1
    /\ turn_awaiting = FALSE
    /\ trace = <<>>
    /\ gen_tasks = <<>>
    /\ turns = 0

\* max_test_attempts when the caller gives none
DefaultMaxTestAttempts == 3

\* the code the graph is invoked with, and the code the model may send back
EntryCode == "c0"
TesterCodes == {"c0", "c1"}

\* the content of a response of the tester's model: whether it holds a
\* ```json fence, whether json.loads accepts what the fence holds, the
\* "action" of the object and whether it has "args"
TesterContents ==
    { PlainText,
      [fenced |-> TRUE, parses |-> TRUE, action |-> "run_grammo_tests", has_args |-> TRUE],
      [fenced |-> TRUE, parses |-> FALSE, action |-> "none", has_args |-> FALSE],
      [fenced |-> TRUE, parses |-> TRUE, action |-> "other", has_args |-> TRUE],
      [fenced |-> TRUE, parses |-> TRUE, action |-> "run_grammo_tests", has_args |-> FALSE] }

\* a response: its content, the tool calls the model made natively, and the
\* code in the args (of the native call or of the JSON object)
TesterResponses ==
    [content : TesterContents, native : BOOLEAN, code : TesterCodes]

ToolCall(c, id) == [name |-> "run_grammo_tests", code |-> c, id |-> id]

\* the tool calls of the AI message as the model returned it
native_tool_calls(resp) ==
    IF resp.native THEN <<ToolCall(resp.code, "native")>> ELSE <<>>

\* a response that keeps the tool calls the model made
no_synthetic_tool_call(resp, ids) == native_tool_calls(resp)

\* _inject_synthetic_tool_call: the tool calls of the AI message afterwards;
\* ids is the number of ids uuid4 has generated so far
_inject_synthetic_tool_call(resp, ids) ==
    IF native_tool_calls(resp) # <<>> THEN native_tool_calls(resp)
    ELSE IF /\ resp.content.fenced
            /\ resp.content.parses
            /\ resp.content.action = "run_grammo_tests"
            /\ resp.content.has_args
         THEN <<ToolCall(resp.code, <<"uuid4", ids + 1>>)>>
    ELSE <<>>

\* tester_route: the conditional edge after generate
tester_route(tool_calls) == IF tool_calls # <<>> THEN "tools" ELSE "end"

\* tester_after_collect: the conditional edge after collect
tester_after_collect(result, attempts, max_attempts) ==
    IF result = "passed" THEN "end"
    ELSE IF attempts >= max_attempts THEN "end"
    ELSE "generate"

InitTester ==
    /\ AppIdle
    /\ WrapperIdle
    /\ t_pc = "init"
    /\ t_gemma \in BOOLEAN
    /\ t_code = EntryCode
    /\ t_original_code = ""
    /\ t_test_result = "none"
    /\ t_test_attempts = 0
    /\ t_max_test_attempts = 0
    /\ t_tool_calls = <<>>
    /\ t_tool_msg = "none"
    /\ t_ids = 0
    /\ t_response = NoResponse
    /\ t_run_code = ""
    /\ ParserIdle
    /\ BridgeIdle

_init_original_code ==
    /\ t_pc = "init"
    /\ IF t_original_code # ""
       THEN UNCHANGED <<t_original_code, t_max_test_attempts, t_test_attempts>>
       ELSE /\ t_original_code' = t_code
            /\ t_max_test_attempts' =
                    IF t_max_test_attempts = 0 THEN DefaultMaxTestAttempts
                    ELSE t_max_test_attempts
            /\ t_test_attempts' = 0
    /\ t_pc' = "generate"
    /\ UNCHANGED <<appVars, wrapperVars, parserVars, bridgeVars, t_gemma, t_code, t_test_result,
                   t_tool_calls, t_tool_msg, t_ids, t_response, t_run_code>>

tester_generate ==
    /\ t_pc = "generate"
    /\ \E resp \in TesterResponses :
        /\ t_response' = resp
        /\ t_tool_calls' = IF t_gemma THEN _inject_synthetic_tool_call(resp, t_ids)
                           ELSE native_tool_calls(resp)
        /\ t_ids' = IF t_tool_calls' # <<>> /\ t_tool_calls'[1].id # "native"
                    THEN t_ids + 1 ELSE t_ids
    /\ t_pc' = tester_route(t_tool_calls')
    /\ UNCHANGED <<appVars, wrapperVars, parserVars, bridgeVars, t_gemma, t_code, t_original_code,
                   t_test_result, t_test_attempts, t_max_test_attempts,
                   t_tool_msg, t_run_code>>

\* ToolNode(TOOLS): run_grammo_tests with the args of the tool call; the
\* tool returns passed or not (its own exceptions become a failed result)
tester_tools ==
    /\ t_pc = "tools"
    /\ t_tool_msg' \in {"passed", "failed"}
    /\ t_run_code' = t_tool_calls[1].code
    /\ t_pc' = "collect"
    /\ UNCHANGED <<appVars, wrapperVars, parserVars, bridgeVars, t_gemma, t_code, t_original_code,
                   t_test_result, t_test_attempts, t_max_test_attempts,
                   t_tool_calls, t_ids, t_response>>

tester_collect ==
    /\ t_pc = "collect"
    /\ LET attempts == t_test_attempts + 1
           passed == t_tool_msg = "passed"
       IN  /\ t_test_result' = t_tool_msg
           /\ t_test_attempts' = attempts
           /\ t_code' = IF ~passed /\ attempts >= t_max_test_attempts
                        THEN (IF t_original_code # "" THEN t_original_code ELSE t_code)
                        ELSE t_tool_calls[1].code
           /\ t_pc' = tester_after_collect(t_test_result', attempts, t_max_test_attempts)
    /\ UNCHANGED <<appVars, wrapperVars, parserVars, bridgeVars, t_gemma, t_original_code,
                   t_max_test_attempts, t_tool_calls, t_tool_msg, t_ids,
                   t_response, t_run_code>>

NextTester ==
    \/ _init_original_code
    \/ tester_generate
    \/ tester_tools
    \/ tester_collect

SpecTester == InitTester /\ [][NextTester]_vars

\* the content holds a well-formed fenced JSON object that names the test
\* tool with its args
WellFormedToolJson(c) ==
    c.fenced /\ c.parses /\ c.action = "run_grammo_tests" /\ c.has_args

\* C24: for a model without native tool calls, a well-formed fenced JSON
\* object naming the test tool yields exactly one synthesized tool call with
\* a fresh id and goes to tool execution as a native call does; any other
\* content yields no tool call and ends as a plain text response; tool calls
\* already present on the response are kept as they are.
C24_SyntheticToolCall ==
    [][ (t_pc = "generate" /\ t_gemma)
            => /\ t_response'.native
                    => /\ t_tool_calls' = native_tool_calls(t_response')
                       /\ t_pc' = "tools"
               /\ (~t_response'.native /\ WellFormedToolJson(t_response'.content))
                    => /\ Len(t_tool_calls') = 1
                       /\ t_tool_calls'[1].name = "run_grammo_tests"
                       /\ t_tool_calls'[1].code = t_response'.code
                       /\ t_tool_calls'[1].id # "native"
                       /\ t_tool_calls # <<>> => t_tool_calls'[1].id # t_tool_calls[1].id
                       /\ t_pc' = "tools"
               /\ (~t_response'.native /\ ~WellFormedToolJson(t_response'.content))
                    => /\ t_tool_calls' = <<>>
                       /\ t_pc' = "end" ]_vars

\* a second synthesized tool call, with an id of its own, goes to the tools
C24_Witness ==
    /\ t_gemma
    /\ t_pc = "tools"
    /\ ~t_response.native
    /\ t_test_attempts = 1
    /\ t_tool_calls[1].id = <<"uuid4", 2>>

\* C25: a response without a tool call does not end the test loop with no
\* test result: the model is prompted again, within the attempt counter.
C25_MissingToolCallRetried ==
    [][ (t_pc = "generate" /\ t_tool_calls' = <<>>)
            => (t_pc' = "generate" \/ t_test_attempts' >= t_max_test_attempts') ]_vars

\* C28: once tests have been run, the loop ends either with the last run
\* passed and code the code of that run, or with test_attempts at
\* max_test_attempts, tests failing and code the snapshot; test_attempts
\* never exceeds max_test_attempts and the snapshot is never modified.
C28_TestLoopEnds ==
    /\ (t_pc = "end" /\ t_test_attempts > 0)
        => \/ (t_test_result = "passed" /\ t_code = t_run_code)
           \/ /\ t_test_result = "failed"
              /\ t_test_attempts = t_max_test_attempts
              /\ t_code = t_original_code
    /\ (t_pc \notin {"off", "init"})
        => (t_test_attempts <= t_max_test_attempts /\ t_original_code = EntryCode)

(***************************************************************************)
(* The parser of the final report, line by line (_parse_validator_output;  *)
(* _parse_debugger_evaluator_output has the same text).  A line is what    *)
(* its stripped text starts with and what follows.  The texts of the model *)
(* hold no Markdown fence.                                                 *)
(***************************************************************************)
\* the longest text given to the parser, in lines
MaxLines == 4

ReportLines ==
    [label : {"", "SUMMARY:", "TESTS:", "ERRORS:", "// ==="}, rest : {"", "a"}]
ReportTexts == UNION {[1..n -> ReportLines] : n \in 0..MaxLines}

BlankLine == [label |-> "", rest |-> ""]

\* str.strip() of lines joined with "\n": the blank lines at both ends go
RECURSIVE strip_lines(_)
strip_lines(lines) ==
    IF lines = <<>> THEN <<>>
    ELSE IF lines[1] = BlankLine THEN strip_lines(Tail(lines))
    ELSE IF lines[Len(lines)] = BlankLine
         THEN strip_lines(SubSeq(lines, 1, Len(lines) - 1))
    ELSE lines

\* the loop over the lines: the fields found so far and the lines kept
RECURSIVE extract_headers(_, _, _, _)
extract_headers(lines, summary_found, tests_found, clean_lines) ==
    IF lines = <<>> THEN <<summary_found, tests_found, clean_lines>>
    ELSE LET line == lines[1]
         IN  IF line.label = "SUMMARY:"
             THEN extract_headers(Tail(lines), line.rest, tests_found, clean_lines)
             ELSE IF line.label = "TESTS:"
             THEN extract_headers(Tail(lines), summary_found, line.rest, clean_lines)
             ELSE IF line.label = "// ==="
             THEN <<summary_found, tests_found, clean_lines>>
             ELSE extract_headers(Tail(lines), summary_found, tests_found,
                                  Append(clean_lines, line))

\* (summary, test_summary, code) of a text
parse_output_lines(text) ==
    LET found == extract_headers(text, "", "", <<>>)
    IN  <<found[1], found[2], strip_lines(found[3])>>

InitParser ==
    /\ AppIdle
    /\ WrapperIdle
    /\ TesterIdle
    /\ BridgeIdle
    /\ f_pc = "parse"
    /\ f_text \in ReportTexts
    /\ f_out = <<>>

\* validator_finalize parses the text of the final report
finalize_parse ==
    /\ f_pc = "parse"
    /\ f_out' = parse_output_lines(f_text)
    /\ f_pc' = "parsed"
    /\ UNCHANGED <<appVars, wrapperVars, testerVars, bridgeVars, f_text>>

NextParser == finalize_parse

SpecParser == InitParser /\ [][NextParser]_vars

\* C26: after parsing, the body holds no line that begins with SUMMARY:,
\* TESTS: or ERRORS:, and the text after each such label of the report is in
\* the summary field or in the test/error field.
C26_LabelsLeaveBody ==
    (f_pc = "parsed")
        => /\ \A i \in 1..Len(f_out[3]) :
                f_out[3][i].label \notin {"SUMMARY:", "TESTS:", "ERRORS:"}
           /\ \A i \in 1..Len(f_text) :
                (f_text[i].label \in {"SUMMARY:", "TESTS:", "ERRORS:"})
                    => f_text[i].rest \in {f_out[1], f_out[2]}

\* a report: one SUMMARY: line, one TESTS: line, then the body
WellFormedReport(text) ==
    /\ Len(text) > 2
    /\ text[1].label = "SUMMARY:"
    /\ text[2].label = "TESTS:"

\* the three fields written in the format of the report
WriteReport(out) ==
    <<[label |-> "SUMMARY:", rest |-> out[1]], [label |-> "TESTS:", rest |-> out[2]]>>
        \o out[3]

\* C27: for every well-formed report, with any body, parsing returns the
\* summary, the test note and the body of the report, and writing them back
\* gives the text of the report.
C27_ReportRoundTrip ==
    (f_pc = "parsed" /\ WellFormedReport(f_text))
        => /\ f_out = <<f_text[1].rest, f_text[2].rest, SubSeq(f_text, 3, Len(f_text))>>
           /\ WriteReport(f_out) = f_text

\* C29: a transport failure of the call to the tester service ends the turn
\* with a turn-level error: no later stage of the turn runs.  (The request
\* was sent, and the step left no test result: the request failed.)
C29_TransportFailureEndsTurn ==
    [][ (pc = "tester" /\ (assembled_code # "" \/ code # "")
         /\ test_result' \notin {"passed", "failed"})
            => pc' \in {"END", "idle"} ]_vars

\* C30: once MakePlan has set original_task, no later step of the planning
\* episode changes it; MakePlan itself runs once in the episode, before any
\* plan exists.
C30_OriginalTaskImmutable ==
    [][ /\ (pc # "planner.make_plan") => original_task' = original_task
        /\ (pc = "planner.make_plan") => (plan = <<>> /\ ~turn_awaiting) ]_vars

\* the episode has run to its end: the execute loop has overwritten task,
\* integrator, tester and validator have run, original_task is the request
C30_Witness ==
    /\ pc = "END"
    /\ InTrace("integrator") /\ InTrace("validator")
    /\ ~awaiting_approval /\ turn_awaiting
    /\ original_task # <<>>
    /\ task # original_task

(***************************************************************************)
(* The retry loop of a stage: what follows a failed compile node           *)
(***************************************************************************)

CompileNodes ==
    {"coder.compile", "integrator.compile", "validator.compile",
     "generator.compile", "evaluator.compile"}

\* the generate node that the conditional edge of a compile node returns to
GenerateOf(node) ==
    CASE node = "coder.compile" -> "coder.generate"
      [] node = "integrator.compile" -> "integrator.generate"
      [] node = "validator.compile" -> "validator.generate"
      [] node = "generator.compile" -> "generator.generate"
      [] OTHER -> "evaluator.generate"

\* the node that the "__end__" branch of a compile node leads to
ExitOf(node) ==
    CASE node = "coder.compile" -> "coder.end"
      [] node = "integrator.compile" -> "integrator.end"
      [] node = "validator.compile" -> "validator.finalize"
      [] node = "generator.compile" -> "generator.end"
      [] OTHER -> "evaluator.finalize"

\* the attempt budget that the compile node compares compile_attempts with
BudgetOf(node) ==
    CASE node = "generator.compile" -> max_iters
      [] node = "evaluator.compile" -> EvaluatorCompileBudget
      [] OTHER -> CompileBudget

FeedbackRoles == {"system", "human"}

\* C31: after a failed compile the loop returns to the generate node exactly
\* when compile_attempts is below the budget of the stage; whenever it
\* returns, the same step has appended a feedback message to the
\* conversation; when the budget is reached the loop is left with
\* compile_result failed.
C31_RetryIffBelowBudget ==
    [][(pc \in CompileNodes /\ compile_result' = "fail")
       => /\ (pc' = GenerateOf(pc)) <=> (compile_attempts' < BudgetOf(pc))
          /\ (pc' = GenerateOf(pc))
                => (last_msg' \in FeedbackRoles /\ last_msg \notin FeedbackRoles)
          /\ (compile_attempts' >= BudgetOf(pc)) => (pc' = ExitOf(pc))]_vars

\* a failed compile went back to generate with feedback, and a later failed
\* compile reached the budget and left the loop
C31_Witness ==
    /\ pc = "coder.end"
    /\ compile_result = "fail"
    /\ compile_attempts = CompileBudget
    /\ comp_calls = CompileBudget

\* C32: compile_errors only grows, and every failed compile step adds exactly
\* one entry to it, also when the compiler's error text is empty (the list
\* is followed by its length).
C32_OneEntryPerFailedCompile ==
    [][/\ compile_errors' >= compile_errors
       /\ (pc \in CompileNodes /\ compile_result' = "fail")
             => compile_errors' = compile_errors + 1]_vars

\* the text that the compile node at `node` hands to the compiler
CandidateAt(node) ==
    CASE node = "integrator.compile" ->
             resanitize(IF assembled_code # "" THEN assembled_code ELSE code)
      [] node \in {"validator.compile", "evaluator.compile"} ->
             _parse_validator_output(validated_code)[3]
      [] OTHER -> resanitize(code)

\* C33: in the compile node of every stage, a candidate that is empty or
\* shorter than the minimum length is not handed to the compiler: the step
\* adds one to compile_attempts, appends one synthetic entry to
\* compile_errors, sets compile_result to failed and appends a directive to
\* the conversation.
C33_ShortCandidateNotCompiled ==
    [][(pc \in CompileNodes /\ ~LongEnough(CandidateAt(pc)))
       => /\ comp_calls' = comp_calls
          /\ compile_attempts' = compile_attempts + 1
          /\ compile_errors' = compile_errors + 1
          /\ compile_result' = "fail"
          /\ last_msg' \in FeedbackRoles]_vars

(***************************************************************************)
(* The sync-over-async helpers: utils.run_async_in_sync, _run_sync and     *)
(* _run_sync_compile of generator.py and coder.py                          *)
(***************************************************************************)

Bridges ==
    {"utils.run_async_in_sync", "generator._run_sync",
     "generator._run_sync_compile", "coder._run_sync",
     "coder._run_sync_compile"}

\* what running the coroutine does: it returns a value (None is one) or
\* raises an exception
CalleeValues == {"result", "None"}
CalleeErrors == {"RuntimeError", "TimeoutError", "ConnectionError"}
CalleeOutcomes ==
    {<<"value", v>> : v \in CalleeValues} \cup
    {<<"error", e>> : e \in CalleeErrors}

\* what the caller receives from a call that returns v / that raises e
Returned(v) == <<"returned", v>>
Raised(e) == <<"raised", e>>

\* asyncio.run(coro) in the calling thread
asyncio_run(outcome) ==
    IF outcome[1] = "value" THEN Returned(outcome[2]) ELSE Raised(outcome[2])

\* utils._target_sync, generator._target_sync_compile and the _target of
\* coder._run_sync_compile: try: res["value"] = ...; except Exception as e:
\* res["error"] = e
_target_sync_compile(outcome) == outcome

\* generator._target_sync and the _target of coder._run_sync:
\* res['value'] = asyncio.run(coro), no except clause: an exception ends the
\* thread and leaves res empty
_target_sync(outcome) ==
    IF outcome[1] = "value" THEN outcome ELSE <<>>

\* if "error" in res: raise res["error"]; return res.get("value")
raise_or_value(res) ==
    IF res # <<>> /\ res[1] = "error" THEN Raised(res[2])
    ELSE IF res # <<>> THEN Returned(res[2])
    ELSE Returned("None")

\* return res.get('value')
get_value(res) ==
    IF res # <<>> /\ res[1] = "value" THEN Returned(res[2])
    ELSE Returned("None")

\* the helpers whose worker has no except clause
Unguarded == {"generator._run_sync", "coder._run_sync"}

InitBridge ==
    /\ AppIdle
    /\ WrapperIdle
    /\ TesterIdle
    /\ ParserIdle
    /\ b_pc = "call"
    /\ b_bridge \in Bridges
    /\ b_loop \in BOOLEAN
    /\ b_callee \in CalleeOutcomes
    /\ b_res = <<>>
    /\ b_thread = "none"
    /\ b_ret = <<>>

\* asyncio.get_running_loop() raises RuntimeError: no loop runs, and the
\* coroutine is run in the calling thread
run_in_caller ==
    /\ b_pc = "call"
    /\ ~b_loop
    /\ b_ret' = asyncio_run(b_callee)
    /\ b_pc' = "done"
    /\ UNCHANGED <<appVars, wrapperVars, testerVars, parserVars, b_bridge,
                   b_loop, b_callee, b_res, b_thread>>

\* a loop runs: res = {}; t = threading.Thread(...); t.start()
start_worker ==
    /\ b_pc = "call"
    /\ b_loop
    /\ b_res' = <<>>
    /\ b_thread' = "started"
    /\ b_pc' = "join"
    /\ UNCHANGED <<appVars, wrapperVars, testerVars, parserVars, b_bridge,
                   b_loop, b_callee, b_ret>>

\* the worker thread runs its target to the end
worker_target ==
    /\ b_thread = "started"
    /\ b_res' = IF b_bridge \in Unguarded THEN _target_sync(b_callee)
                ELSE _target_sync_compile(b_callee)
    /\ b_thread' = "finished"
    /\ UNCHANGED <<appVars, wrapperVars, testerVars, parserVars, b_pc,
                   b_bridge, b_loop, b_callee, b_ret>>

\* t.join() returns once the worker has finished; then the caller reads res
join_and_return ==
    /\ b_pc = "join"
    /\ b_thread = "finished"
    /\ b_ret' = IF b_bridge \in Unguarded THEN get_value(b_res)
                ELSE raise_or_value(b_res)
    /\ b_pc' = "done"
    /\ UNCHANGED <<appVars, wrapperVars, testerVars, parserVars, b_bridge,
                   b_loop, b_callee, b_res, b_thread>>

NextBridge ==
    \/ run_in_caller \/ start_worker \/ worker_target \/ join_and_return

SpecBridge == InitBridge /\ [][NextBridge]_vars

\* C34: a bridge call returns only after its worker thread has finished, and
\* the caller receives the callee's value when the callee returned and the
\* callee's exception when the callee raised: a failure inside the worker
\* never reaches the caller as a normal result.
C34_BridgePropagates ==
    (b_ret # <<>>)
        => /\ b_thread # "started"
           /\ b_ret = asyncio_run(b_callee)

\* the nodes at which a generation stage has ended
GenerationEnds == {"coder.end", "generator.end"}

\* C35: when a generation stage ends, compile_result is the compiler's
\* verdict on the code in state: it never says compiled while code holds a
\* later candidate that the compiler has not accepted.
C35_CompiledMeansThisCode ==
    (pc \in GenerationEnds /\ compile_result = "ok") => grammo_compile(code)

(***************************************************************************)
(* A session of coder turns: every turn asks for a program, the model      *)
(* answers the coder with a valid or an invalid program, and the validator *)
(* answers with a labelled report.  The checkpointer keeps the state of    *)
(* the thread from one turn to the next.                                   *)
(***************************************************************************)
ArtifactMsgs == { <<"T","e","s","t"," ">> }
ArtifactRouterReplies == [parsed : {TRUE}, route : {"coder"}, run_tests : BOOLEAN]
ArtifactResponses ==
    [tool : {FALSE}, content : [prose : {FALSE}, body : {"ok", "bad"}]]
ArtifactReports ==
    [tool : {FALSE}, content : [labels : {TRUE}, body : {"ok", "bad"}]]

NextArtifact ==
    \/ run_turn_on(ArtifactMsgs) \/ main_loop
    \/ router_node_on(ArtifactRouterReplies)
    \/ coder_generate_on(ArtifactResponses) \/ coder_compile \/ coder_return
    \/ tester_a2a_node_on({"passed"})
    \/ validator_generate_on(ArtifactReports) \/ validator_compile
    \/ validator_finalize \/ validator_return

SpecArtifact == Init /\ [][NextArtifact]_vars

\* the artifact of the generation stage of the running turn: the integrator's
\* assembled_code in a turn that executes a plan, the coder's code otherwise
ProducedThisTurn == IF InTrace("integrator") THEN assembled_code ELSE code

\* C36: the artifact that the tester node sends to the tester and that the
\* validator takes as its candidate is the one that the generation stage of
\* the same turn has produced, not an assembled_code left by an earlier turn.
C36_TestsThisTurnsArtifact ==
    (pc \in {"tester", "validator.generate"} /\ ~finalized)
        => _get_candidate_code(assembled_code, code) = ProducedThisTurn

\* C37: when a stage ends, the last message of the history it hands over is
\* not an assistant message with a tool call that no tool message answers.
C37_NoUnansweredToolCall ==
    (pc \in StageEnds) => last_msg # "ai_tool"

\* C38: the acknowledgement of handle_approval and the branch taken after it
\* agree for every reply: a reply acknowledged as affirmative ("Starting
\* step-by-step implementation", the reply passes _is_yes) leads to the
\* execution of the plan and never to revise_plan, and a reply acknowledged
\* as negative leads to revise_plan.
C38_AcknowledgedBranchTaken ==
    [][(pc = "planner.handle_approval")
       => /\ _is_yes(Strip(task)) => pc' = "planner.set_next_subtask"
          /\ (~_is_yes(Strip(task)) /\ _is_no(Strip(task)))
                => pc' = "planner.revise_plan"]_vars

FinalizeNodes == {"validator.finalize", "evaluator.finalize"}

\* C39: finalize never replaces a non-empty artifact with an empty one: when
\* the parsed body of the report is empty, code becomes the candidate of the
\* stage and assembled_code stays as it was.
C39_FinalizeKeepsArtifact ==
    [][(pc \in FinalizeNodes)
       => /\ (_parse_validator_output(validated_code)[3] = "")
                => /\ code' = (IF assembled_code # "" THEN assembled_code
                               ELSE code)
                   /\ assembled_code' = assembled_code
          /\ (code # "") => (code' # "")
          /\ (assembled_code # "") => (assembled_code' # "")]_vars

\* a validator run has been finalized on a report without a code body, and
\* the artifact of the generation stage is still in code
C39_Witness ==
    /\ pc = "validator.end"
    /\ finalized
    /\ _parse_validator_output(validated_code)[3] = ""
    /\ code # ""

ResetNodes == {"integrator.reset", "generator.reset", "evaluator.reset"}

\* the per-stage iteration counter that the reset node at `node` reads
StageCounter(node) ==
    IF node = "evaluator.reset" THEN iteration_count ELSE iterations

\* C40: every reset step adds the per-stage iteration count of the stages
\* before it to global_iterations and sets the per-stage counter to 0, also
\* when the ceiling is exceeded, and global_iterations never decreases during
\* a turn.
C40_ResetAccountsIterations ==
    [][/\ (pc \in ResetNodes)
            => /\ global_iterations' = global_iterations + StageCounter(pc)
               /\ StageCounter(pc)' = 0
       /\ (pc # "idle") => global_iterations' >= global_iterations]_vars

=============================================================================
